---------------------------- MODULE Spec2Model ----------------------------
(***************************************************************************)
(* Model of the workflow execution engine (class ExecutionEngine):         *)
(* executeWorkflow, executeNode, the alias map, the template resolver,     *)
(* the run context accessors, log and stop.                                *)
(*                                                                         *)
(* JavaScript runs the engine on one thread: control leaves the engine     *)
(* only at an await.  Every action below is one synchronous stretch of the *)
(* code; stop() and the steps of a running block interleave only where the *)
(* engine awaits.                                                          *)
(***************************************************************************)
EXTENDS Integers, Sequences, FiniteSets, TLC

(***************************************************************************)
(* JavaScript values.  A value is a tagged tuple; strings are TLA+ strings,*)
(* objects are functions from keys to values, arrays are sequences.        *)
(***************************************************************************)
Undef == <<"undef">>
Null == <<"null">>
Str(s) == <<"str", s>>
Num(n) == <<"num", n>>
Bool(b) == <<"bool", b>>
Obj(f) == <<"obj", f>>
Arr(a) == <<"arr", a>>

Tag(v) == v[1]
Payload(v) == v[2]

\* The object {} : a function with no key.
EmptyObject == [k \in {} |-> Undef]

\* The object o with key k set to v (o[k] = v).
SetKey(o, k, v) == [x \in (DOMAIN o) \cup {k} |-> IF x = k THEN v ELSE o[x]]

\* The object { ...a, ...b } : the keys of both, b winning.
Spread(a, b) == [x \in (DOMAIN a) \cup (DOMAIN b) |-> IF x \in DOMAIN b THEN b[x] ELSE a[x]]

\* !v : the values JavaScript treats as false.
Falsy(v) ==
  \/ Tag(v) \in {"undef", "null"}
  \/ Tag(v) = "num" /\ Payload(v) = 0
  \/ Tag(v) = "str" /\ Payload(v) = ""
  \/ Tag(v) = "bool" /\ Payload(v) = FALSE

\* v == null : null or undefined.
Nullish(v) == Tag(v) \in {"undef", "null"}

(***************************************************************************)
(* Strings.                                                                *)
(***************************************************************************)
CharAt(s, i) == SubSeq(s, i, i)

IsSpace(c) == c = " "

RECURSIVE TrimLeft(_)
TrimLeft(s) ==
  IF Len(s) > 0 /\ IsSpace(CharAt(s, 1)) THEN TrimLeft(SubSeq(s, 2, Len(s))) ELSE s

RECURSIVE TrimRight(_)
TrimRight(s) ==
  IF Len(s) > 0 /\ IsSpace(CharAt(s, Len(s))) THEN TrimRight(SubSeq(s, 1, Len(s) - 1)) ELSE s

\* String.prototype.trim
Trim(s) == TrimRight(TrimLeft(s))

\* The index of the first occurrence of the character c in s at or after i, 0 if none.
RECURSIVE IndexOfFrom(_, _, _)
IndexOfFrom(s, c, i) ==
  IF i > Len(s) THEN 0
  ELSE IF CharAt(s, i) = c THEN i
  ELSE IndexOfFrom(s, c, i + 1)

\* s.split('.') : the parts between the dots, at least one part.
RECURSIVE SplitDots(_)
SplitDots(s) ==
  LET d == IndexOfFrom(s, ".", 1)
  IN  IF d = 0 THEN <<s>>
      ELSE <<SubSeq(s, 1, d - 1)>> \o SplitDots(SubSeq(s, d + 1, Len(s)))

\* parts.join('.')
RECURSIVE JoinDots(_)
JoinDots(parts) ==
  IF Len(parts) = 0 THEN ""
  ELSE IF Len(parts) = 1 THEN parts[1]
  ELSE parts[1] \o "." \o JoinDots(Tail(parts))

Digit(d) == CharAt("0123456789", d + 1)

\* String(n) for an integer n.
RECURSIVE NatToString(_)
NatToString(n) ==
  IF n < 10 THEN Digit(n) ELSE NatToString(n \div 10) \o Digit(n % 10)

NumToString(n) == IF n < 0 THEN "-" \o NatToString(0 - n) ELSE NatToString(n)

\* String(v) : JavaScript's conversion of a value to a string.
RECURSIVE JsString(_)
JsString(v) ==
  CASE Tag(v) = "str" -> Payload(v)
    [] Tag(v) = "num" -> NumToString(Payload(v))
    [] Tag(v) = "bool" -> IF Payload(v) THEN "true" ELSE "false"
    [] Tag(v) = "null" -> "null"
    [] Tag(v) = "undef" -> "undefined"
    [] Tag(v) = "obj" -> "[object Object]"
    [] Tag(v) = "arr" ->
         LET a == Payload(v)
             Item(x) == IF Nullish(x) THEN "" ELSE JsString(x)
             RECURSIVE Join(_)
             Join(i) == IF i > Len(a) THEN ""
                        ELSE IF i = Len(a) THEN Item(a[i])
                        ELSE Item(a[i]) \o "," \o Join(i + 1)
         IN  Join(1)

(***************************************************************************)
(* Property access and the template resolver (executeNode, lines 358-423). *)
(***************************************************************************)
\* Whether the key p is the decimal index of one of the n elements 0..n-1.
IsIndex(p, n) == \E i \in 0..(n - 1) : NatToString(i) = p

IndexOf(p, n) == CHOOSE i \in 0..(n - 1) : NatToString(i) = p

\* cur[p] for a value cur that is neither null nor undefined: an own key of an
\* object, an element or the length of an array, a character or the length of a
\* string; undefined otherwise.
Prop(cur, p) ==
  CASE Tag(cur) = "obj" -> IF p \in DOMAIN Payload(cur) THEN Payload(cur)[p] ELSE Undef
    [] Tag(cur) = "arr" ->
         IF p = "length" THEN Num(Len(Payload(cur)))
         ELSE IF IsIndex(p, Len(Payload(cur))) THEN Payload(cur)[IndexOf(p, Len(Payload(cur))) + 1]
         ELSE Undef
    [] Tag(cur) = "str" ->
         IF p = "length" THEN Num(Len(Payload(cur)))
         ELSE IF IsIndex(p, Len(Payload(cur)))
              THEN Str(CharAt(Payload(cur), IndexOf(p, Len(Payload(cur))) + 1))
         ELSE Undef
    [] OTHER -> Undef

\* The loop of getByPath over the parts of the path, from the value cur.
RECURSIVE WalkPath(_, _)
WalkPath(cur, parts) ==
  IF Len(parts) = 0 THEN cur
  ELSE IF Falsy(cur) THEN Undef
  ELSE WalkPath(Prop(cur, Head(parts)), Tail(parts))

getByPath(obj, path) ==
  IF Falsy(obj) \/ Tag(obj) \notin {"obj", "arr"} THEN Undef
  ELSE WalkPath(obj, SplitDots(path))

\* nodeOutputs[id] : the slot of a node in the Output Store, undefined if none.
\* The store is a function from node ids to objects.
Slot(outputs, id) == IF id \in DOMAIN outputs THEN Obj(outputs[id]) ELSE Undef

\* v != null ? String(v) : ''
StringOrEmpty(v) == IF Nullish(v) THEN "" ELSE JsString(v)

\* The replacement of one placeholder {{ expr }}.  ctx holds what the closure
\* reads: env, prevId, nodeOutputs and aliasMap.
ResolveExpr(expr, ctx) ==
  LET raw == Trim(expr)
      parts == SplitDots(raw)
      root == Head(parts)
      path == JoinDots(Tail(parts))
  IN  IF root = "" THEN ""
      ELSE IF root = "env"
        THEN IF path # "" /\ path \in DOMAIN ctx.env THEN ctx.env[path] ELSE ""
      ELSE IF root = "prev"
        THEN IF Falsy(ctx.prevId) THEN ""
             ELSE LET prev == Slot(ctx.nodeOutputs, Payload(ctx.prevId))
                      v == IF path # ""
                           THEN getByPath(IF Nullish(prev) THEN Obj(EmptyObject) ELSE prev, path)
                           ELSE prev
                  IN  StringOrEmpty(v)
      ELSE LET mapped == IF root \in DOMAIN ctx.aliasMap THEN ctx.aliasMap[root] ELSE Undef
               targetId == IF Tag(mapped) = "undef" THEN Str(root) ELSE mapped
           IN  IF Tag(targetId) = "null" THEN ""
               ELSE LET outputs == Slot(ctx.nodeOutputs, Payload(targetId))
                    IN  IF Falsy(outputs) THEN ""
                        ELSE StringOrEmpty(IF path # "" THEN getByPath(outputs, path) ELSE outputs)

\* Whether /\{\{\s*([^}]+)\s*\}\}/ matches s at position i: "{{", then at least one
\* character other than "}", then "}}".  The greedy group takes every character up
\* to the first "}", so the match ends at that "}" and the one after it.
BodyEnd(s, i) == IndexOfFrom(s, "}", i + 2)

MatchAtOneBrace(s, i) ==
  /\ i + 1 <= Len(s)
  /\ CharAt(s, i) = "{"
  /\ CharAt(s, i + 1) = "{"
  /\ BodyEnd(s, i) > i + 2

MatchAt(s, i) ==
  /\ i + 1 <= Len(s)
  /\ CharAt(s, i) = "{"
  /\ CharAt(s, i + 1) = "{"
  /\ BodyEnd(s, i) > i + 2
  /\ BodyEnd(s, i) + 1 <= Len(s)
  /\ CharAt(s, BodyEnd(s, i) + 1) = "}"

\* val.replace(/\{\{\s*([^}]+)\s*\}\}/g, ...) from position i on: matches are taken
\* leftmost first and do not overlap.  The captured text is trimmed by the
\* callback, so the share of the surrounding \s* does not matter.
RECURSIVE ReplaceFrom(_, _, _)
ReplaceFrom(s, i, ctx) ==
  IF i > Len(s) THEN ""
  ELSE IF MatchAt(s, i)
    THEN ResolveExpr(SubSeq(s, i + 2, BodyEnd(s, i) - 1), ctx) \o ReplaceFrom(s, BodyEnd(s, i) + 2, ctx)
  ELSE CharAt(s, i) \o ReplaceFrom(s, i + 1, ctx)

RECURSIVE resolveTemplatesDeep(_, _)
resolveTemplatesDeep(val, ctx) ==
  CASE Tag(val) = "str" -> Str(ReplaceFrom(Payload(val), 1, ctx))
    [] Tag(val) = "arr" ->
         Arr([i \in 1..Len(Payload(val)) |-> resolveTemplatesDeep(Payload(val)[i], ctx)])
    [] Tag(val) = "obj" ->
         Obj([k \in DOMAIN Payload(val) |-> resolveTemplatesDeep(Payload(val)[k], ctx)])
    [] OTHER -> val

(***************************************************************************)
(* The state of one engine instance and of the call of executeWorkflow     *)
(* made on it.                                                             *)
(***************************************************************************)
VARIABLES
  workflow,          \* the Workflow passed to executeWorkflow: name, starterId, nodes, edges
  env,               \* the environment map passed to executeWorkflow
  options,           \* onlyNodeId and existingExecution, each absent or present
  onLog,             \* the log subscriber: the levels of the entries it fails on
  onNodeUpdate,      \* the node subscriber: the statuses of the records it fails on
  abortController,   \* this.abortController: "null", "active" or "aborted"
  pc,                \* where the call of executeWorkflow stands
  execution,         \* the WorkflowExecution the call builds
  aliasMap,          \* name -> node id or null
  nodeOutputs,       \* the Output Store: node id -> object
  singleNodeId,      \* options.onlyNodeId trimmed, or undefined
  visited,           \* the set of node ids dequeued in this run
  queue,             \* the FIFO queue of node ids
  nodeId,            \* the id of the node being executed
  context,           \* the RunContext of the node being executed: prevId, inputs
  blockStep,         \* the next step of the running block
  thrown,            \* the error being propagated, or undefined
  nodeUpdates,       \* the calls of onNodeUpdate made so far: <<node id, status>>
  started,           \* the nodes executeNode was called for in this run, in order
  invoked,           \* the nodes whose block's run was invoked in this run, in order
  settled,           \* how each call of executeNode ended: "resolved" or "rejected"
  stopAt,            \* where the run stood when stop() first aborted it
  request            \* the call of context.fetch the running block has made, if any

vars == <<workflow, env, options, onLog, onNodeUpdate, abortController, pc, execution,
          aliasMap, nodeOutputs, singleNodeId, visited, queue, nodeId, context, blockStep,
          thrown, nodeUpdates, started, invoked, settled, stopAt, request>>

inputs == <<workflow, env, options, onLog, onNodeUpdate>>

\* An optional argument: absent, or present with a value.
None == <<>>
Some(x) == <<x>>

\* new Error(message), and a thrown value that is not an Error.
Error(message) == <<"Error", message>>

\* error instanceof Error ? error.message : 'Unknown error'
ErrorMessage(e) == IF Tag(e) = "Error" THEN e[2] ELSE "Unknown error"

\* What a failing subscriber throws.
SubscriberError == Error("subscriber failed")

(***************************************************************************)
(* log (lines 549-560): the entry is pushed, then the subscriber is called *)
(* and whatever it throws propagates to the caller of log.                 *)
(***************************************************************************)
ExecutionLog(level, message, node) == [level |-> level, message |-> message, nodeId |-> node]

logAtFront(ex, level, message, node) ==
  [ex EXCEPT !.logs = <<ExecutionLog(level, message, node)>> \o @]

log(ex, level, message, node) ==
  [ex EXCEPT !.logs = Append(@, ExecutionLog(level, message, node))]

logThrows(level) == level \in onLog

(***************************************************************************)
(* Lookups in the workflow.                                                *)
(***************************************************************************)
\* workflow.nodes.find(n => n.id === id) : the first node with the id, if any.
HasNode(wf, id) == \E i \in 1..Len(wf.nodes) : wf.nodes[i].id = id

FindNode(wf, id) ==
  wf.nodes[CHOOSE i \in 1..Len(wf.nodes) :
             /\ wf.nodes[i].id = id
             /\ \A j \in 1..(i - 1) : wf.nodes[j].id # id]

\* data[k], undefined when the key is absent.
DataGet(data, k) == IF k \in DOMAIN data THEN data[k] ELSE Undef

\* workflow.nodes.filter(node => ids.includes(node.id)).map(n => n.id)
RECURSIVE IdsOfNodesIn(_, _)
IdsOfNodesIn(nodes, ids) ==
  IF Len(nodes) = 0 THEN <<>>
  ELSE (IF Head(nodes).id \in ids THEN <<Head(nodes).id>> ELSE <<>>) \o IdsOfNodesIn(Tail(nodes), ids)

\* getConnectedNodes following the edges backwards (edge.target === fromNodeId).
getConnectedNodesBackwards(wf, fromNodeId) ==
  LET connectedNodeIds == {wf.edges[i].source : i \in {j \in 1..Len(wf.edges) : wf.edges[j].target = fromNodeId}}
  IN  IdsOfNodesIn(wf.nodes, connectedNodeIds)

getConnectedNodesInEdgeOrder(wf, fromNodeId) ==
  LET RECURSIVE Targets(_, _)
      Targets(i, acc) ==
        IF i > Len(wf.edges) THEN acc
        ELSE LET e == wf.edges[i]
                 fresh == /\ e.source = fromNodeId
                          /\ HasNode(wf, e.target)
                          /\ \A k \in 1..Len(acc) : acc[k] # e.target
             IN  Targets(i + 1, IF fresh THEN Append(acc, e.target) ELSE acc)
  IN  Targets(1, <<>>)

\* getConnectedNodes (lines 511-519): the nodes of the workflow, in the order of
\* workflow.nodes, that are the target of an edge leaving fromNodeId.
getConnectedNodes(wf, fromNodeId) ==
  LET connectedNodeIds == {wf.edges[i].target : i \in {j \in 1..Len(wf.edges) : wf.edges[j].source = fromNodeId}}
  IN  IdsOfNodesIn(wf.nodes, connectedNodeIds)

validateWorkflowNodesOnly(wf) ==
  IF Len(wf.nodes) = 0 THEN Error("Workflow has no nodes") ELSE Undef

\* validateWorkflow (lines 498-509): the error it throws, undefined if none.
validateWorkflow(wf) ==
  IF Len(wf.nodes) = 0 THEN Error("Workflow has no nodes")
  ELSE IF ~HasNode(wf, wf.starterId) THEN Error("Start node not found")
  ELSE Undef

\* The name of a node in the alias map (line 244):
\* String(data.alias ?? data.refName ?? type).trim()
AliasOf(n) ==
  LET a == DataGet(n.data, "alias")
      r == DataGet(n.data, "refName")
  IN  Trim(JsString(IF ~Nullish(a) THEN a ELSE IF ~Nullish(r) THEN r ELSE Str(n.type)))

\* A loop in which a later node of the same name takes the entry over.
RECURSIVE AliasLoopLastWins(_, _)
AliasLoopLastWins(map, nodes) ==
  IF Len(nodes) = 0 THEN map
  ELSE LET n == Head(nodes)
           alias == AliasOf(n)
       IN  AliasLoopLastWins(IF alias = "" THEN map ELSE SetKey(map, alias, Str(n.id)), Tail(nodes))

\* The loop of lines 243-253 over the nodes, from the map built so far.
RECURSIVE AliasLoop(_, _)
AliasLoop(map, nodes) ==
  IF Len(nodes) = 0 THEN map
  ELSE LET n == Head(nodes)
           alias == AliasOf(n)
           next == IF alias = "" THEN map
                   ELSE IF alias \notin DOMAIN map THEN SetKey(map, alias, Str(n.id))
                   ELSE SetKey(map, alias, Null)
       IN  AliasLoop(next, Tail(nodes))

buildAliasMap(wf) == AliasLoop(EmptyObject, wf.nodes)

(***************************************************************************)
(* The block catalogue.  The engine only looks a block up by type and      *)
(* awaits its run(context); the blocks here are test doubles: a script of  *)
(* setNodeOutput calls ended by a return or a throw.  A type outside the   *)
(* catalogue has no registered block.                                      *)
(***************************************************************************)
SetStep(key, value) == <<"set", key, value>>
ReturnStep(value) == <<"return", value>>
ThrowStep(error) == <<"throw", error>>
GetStep(key) == <<"get", key>>
FetchStep == <<"fetch">>

Catalog ==
  [starter |-> <<ReturnStep(Obj(EmptyObject))>>,
   const   |-> <<ReturnStep(Obj("x" :> Num(1)))>>,
   bare    |-> <<ReturnStep(Num(7))>>,
   setter  |-> <<SetStep("s", Num(2)), SetStep("x", Num(3)), ReturnStep(Obj("x" :> Num(4)))>>,
   boom    |-> <<ThrowStep(Error("boom"))>>,
   raw     |-> <<ThrowStep(Str("boom"))>>,
   late    |-> <<SetStep("s", Num(2)), ThrowStep(Error("late"))>>,
   reader  |-> <<GetStep("out"), ReturnStep(Obj(EmptyObject))>>,
   fetcher |-> <<FetchStep, ReturnStep(Obj("ok" :> Bool(TRUE)))>>]

\* getBlockConfig(type): whether a block with a run is registered, and its run.
HasBlock(type) == type \in DOMAIN Catalog

BlockScript(type) == Catalog[type]

(***************************************************************************)
(* Records of the execution snapshot.                                      *)
(***************************************************************************)
NodeExecution(id, status, outputs, error, endTime) ==
  [nodeId |-> id, status |-> status, outputs |-> outputs, error |-> error, endTime |-> endTime]

\* The execution a call without existingExecution starts from (lines 225-232).
FreshExecution ==
  [status |-> "running", logs |-> <<>>, nodeExecutions |-> EmptyObject, endTime |-> "unset"]

\* { ...options.existingExecution, status: 'running' } or the fresh execution.
InitialExecution(opts) ==
  IF Len(opts.existingExecution) > 0
  THEN [Head(opts.existingExecution) EXCEPT !.status = "running"]
  ELSE FreshExecution

\* A set as a sequence, in an order fixed by the set.
RECURSIVE SetToSeq(_)
SetToSeq(S) ==
  IF S = {} THEN <<>> ELSE LET x == CHOOSE y \in S : TRUE IN <<x>> \o SetToSeq(S \ {x})

\* Object.entries(execution.nodeExecutions): the recorded node ids, those of the
\* workflow's nodes in the order of workflow.nodes first.
EntryOrder(wf, nodeExecutions) ==
  IdsOfNodesIn(wf.nodes, DOMAIN nodeExecutions)
    \o SetToSeq({id \in DOMAIN nodeExecutions : ~HasNode(wf, id)})

\* The ids among seq whose record has outputs (if (nodeExecution.outputs)).
RECURSIVE WithOutputs(_, _)
WithOutputs(seq, nodeExecutions) ==
  IF Len(seq) = 0 THEN <<>>
  ELSE (IF Falsy(nodeExecutions[Head(seq)].outputs) THEN <<>> ELSE <<Head(seq)>>)
         \o WithOutputs(Tail(seq), nodeExecutions)

\* The restore loop (lines 262-267) over the ids of seq: each slot is set and the
\* restore is logged; with failing set the loop ends at the first log.
\* A restoration that copies nothing into the store.
RestoreLoopSkipped(seq, ex, outputs, failing) ==
  [execution |-> ex, nodeOutputs |-> outputs, threw |-> FALSE]

RECURSIVE RestoreLoop(_, _, _, _)
RestoreLoop(seq, ex, outputs, failing) ==
  IF Len(seq) = 0 THEN [execution |-> ex, nodeOutputs |-> outputs, threw |-> FALSE]
  ELSE LET id == Head(seq)
           out1 == SetKey(outputs, id, Payload(ex.nodeExecutions[id].outputs))
           ex1 == log(ex, "info", "Restored outputs from previous execution: " \o id, Undef)
       IN  IF failing THEN [execution |-> ex1, nodeOutputs |-> out1, threw |-> TRUE]
           ELSE RestoreLoop(Tail(seq), ex1, out1, failing)

(***************************************************************************)
(* executeWorkflow (lines 219-327).                                        *)
(***************************************************************************)
\* Lines 220-234: a new AbortController, the execution, the first log entry.
\* That log call is outside the try: what the subscriber throws rejects the call.
Start ==
  /\ pc = "idle"
  /\ abortController' = "active"
  /\ execution' = log(InitialExecution(options), "info", "Starting workflow: " \o workflow.name, Undef)
  /\ IF logThrows("info")
     THEN pc' = "rejected" /\ thrown' = SubscriberError
     ELSE pc' = "validate" /\ thrown' = thrown
  /\ UNCHANGED <<inputs, request, aliasMap, nodeOutputs, singleNodeId, visited, queue, nodeId, context,
                 blockStep, nodeUpdates, started, invoked, settled, stopAt>>

\* Line 238.
Validate ==
  /\ pc = "validate"
  /\ LET e == validateWorkflow(workflow)
     IN  IF Tag(e) = "undef"
         THEN pc' = "aliasMap" /\ thrown' = thrown
         ELSE pc' = "catch" /\ thrown' = e
  /\ UNCHANGED <<inputs, request, abortController, execution, aliasMap, nodeOutputs, singleNodeId, visited,
                 queue, nodeId, context, blockStep, nodeUpdates, started, invoked, settled, stopAt>>

\* Lines 240-253.
BuildAliasMap ==
  /\ pc = "aliasMap"
  /\ aliasMap' = buildAliasMap(workflow)
  /\ pc' = "restore"
  /\ UNCHANGED <<inputs, request, abortController, execution, nodeOutputs, singleNodeId, visited, queue,
                 nodeId, context, blockStep, thrown, nodeUpdates, started, invoked, settled, stopAt>>

\* options?.onlyNodeId?.trim()
TrimmedOnlyNodeId(opts) ==
  IF Len(opts.onlyNodeId) = 0 THEN Undef ELSE Str(Trim(Head(opts.onlyNodeId)))

\* Lines 255-268: the empty Output Store and, in single-node mode, the outputs
\* recorded in the execution.
RestoreOutputs ==
  /\ pc = "restore"
  /\ singleNodeId' = TrimmedOnlyNodeId(options)
  /\ LET ids == IF Falsy(singleNodeId') THEN <<>>
                ELSE WithOutputs(EntryOrder(workflow, execution.nodeExecutions), execution.nodeExecutions)
         r == RestoreLoop(ids, execution, EmptyObject, logThrows("info"))
     IN  /\ execution' = r.execution
         /\ nodeOutputs' = r.nodeOutputs
         /\ IF r.threw
            THEN pc' = "catch" /\ thrown' = SubscriberError
            ELSE pc' = "findStart" /\ thrown' = thrown
  /\ UNCHANGED <<inputs, request, abortController, aliasMap, visited, queue, nodeId, context, blockStep,
                 nodeUpdates, started, invoked, settled, stopAt>>

\* The start node is the starter in single-node mode as well.
FindStartAtStarter ==
  /\ pc = "findStart"
  /\ LET single == ~Falsy(singleNodeId)
         target == workflow.starterId
     IN  IF HasNode(workflow, target)
         THEN /\ visited' = {}
              /\ queue' = <<target>>
              /\ pc' = "loop"
              /\ thrown' = thrown
         ELSE /\ thrown' = Error(IF single THEN "Selected node not found" ELSE "Start node not found")
              /\ pc' = "catch"
              /\ UNCHANGED <<visited, queue>>
  /\ UNCHANGED <<inputs, request, abortController, execution, aliasMap, nodeOutputs, singleNodeId, nodeId,
                 context, blockStep, nodeUpdates, started, invoked, settled, stopAt>>

\* Lines 271-278: the start node, the visited set and the queue.
FindStart ==
  /\ pc = "findStart"
  /\ LET single == ~Falsy(singleNodeId)
         target == IF single THEN Payload(singleNodeId) ELSE workflow.starterId
     IN  IF HasNode(workflow, target)
         THEN /\ visited' = {}
              /\ queue' = <<target>>
              /\ pc' = "loop"
              /\ thrown' = thrown
         ELSE /\ thrown' = Error(IF single THEN "Selected node not found" ELSE "Start node not found")
              /\ pc' = "catch"
              /\ UNCHANGED <<visited, queue>>
  /\ UNCHANGED <<inputs, request, abortController, execution, aliasMap, nodeOutputs, singleNodeId, nodeId,
                 context, blockStep, nodeUpdates, started, invoked, settled, stopAt>>

\* Line 280: the queue is empty, the loop ends.
LoopExit ==
  /\ pc = "loop"
  /\ queue = <<>>
  /\ pc' = "complete"
  /\ UNCHANGED <<inputs, request, abortController, execution, aliasMap, nodeOutputs, singleNodeId, visited,
                 queue, nodeId, context, blockStep, thrown, nodeUpdates, started, invoked, settled, stopAt>>

\* The loop left at an aborted signal without the status being set.
LoopCancelUnmarked ==
  /\ pc = "loop"
  /\ queue # <<>>
  /\ abortController = "aborted"
  /\ pc' = "complete"
  /\ UNCHANGED <<inputs, request, abortController, execution, aliasMap, nodeOutputs, singleNodeId, visited,
                 queue, nodeId, context, blockStep, thrown, nodeUpdates, started, invoked, settled,
                 stopAt>>

\* The signal is looked at whether or not the queue holds an entry.
LoopCancelOnEmptyQueue ==
  /\ pc = "loop"
  /\ abortController = "aborted"
  /\ execution' = [execution EXCEPT !.status = "cancelled"]
  /\ pc' = "complete"
  /\ UNCHANGED <<inputs, request, abortController, aliasMap, nodeOutputs, singleNodeId, visited, queue,
                 nodeId, context, blockStep, thrown, nodeUpdates, started, invoked, settled, stopAt>>

\* Lines 281-284: the signal is aborted at a dequeue.
LoopCancel ==
  /\ pc = "loop"
  /\ queue # <<>>
  /\ abortController = "aborted"
  /\ execution' = [execution EXCEPT !.status = "cancelled"]
  /\ pc' = "complete"
  /\ UNCHANGED <<inputs, request, abortController, aliasMap, nodeOutputs, singleNodeId, visited, queue,
                 nodeId, context, blockStep, thrown, nodeUpdates, started, invoked, settled, stopAt>>

\* Lines 286-287: the dequeued node was visited already.
DequeueVisited ==
  /\ pc = "loop"
  /\ queue # <<>>
  /\ abortController # "aborted"
  /\ Head(queue) \in visited
  /\ queue' = Tail(queue)
  /\ UNCHANGED <<inputs, request, abortController, pc, execution, aliasMap, nodeOutputs, singleNodeId,
                 visited, nodeId, context, blockStep, thrown, nodeUpdates, started, invoked, settled, stopAt>>

\* A dequeue that does not look at the signal.
DequeueNodeIgnoringAbort ==
  /\ pc = "loop"
  /\ queue # <<>>
  /\ Head(queue) \notin visited
  /\ queue' = Tail(queue)
  /\ visited' = visited \cup {Head(queue)}
  /\ nodeId' = Head(queue)
  /\ pc' = IF HasNode(workflow, Head(queue)) THEN "executeNode" ELSE "loop"
  /\ UNCHANGED <<inputs, request, abortController, execution, aliasMap, nodeOutputs, singleNodeId, context,
                 blockStep, thrown, nodeUpdates, started, invoked, settled, stopAt>>

\* The dequeued node is not added to the visited set.
DequeueNodeUnmarked ==
  /\ pc = "loop"
  /\ queue # <<>>
  /\ abortController # "aborted"
  /\ Head(queue) \notin visited
  /\ queue' = Tail(queue)
  /\ visited' = visited
  /\ nodeId' = Head(queue)
  /\ pc' = IF HasNode(workflow, Head(queue)) THEN "executeNode" ELSE "loop"
  /\ UNCHANGED <<inputs, request, abortController, execution, aliasMap, nodeOutputs, singleNodeId, context,
                 blockStep, thrown, nodeUpdates, started, invoked, settled, stopAt>>

\* Lines 286-294: the dequeued node is marked visited and executeNode is called.
DequeueNode ==
  /\ pc = "loop"
  /\ queue # <<>>
  /\ abortController # "aborted"
  /\ Head(queue) \notin visited
  /\ queue' = Tail(queue)
  /\ visited' = visited \cup {Head(queue)}
  /\ nodeId' = Head(queue)
  /\ pc' = IF HasNode(workflow, Head(queue)) THEN "executeNode" ELSE "loop"
  /\ UNCHANGED <<inputs, request, abortController, execution, aliasMap, nodeOutputs, singleNodeId, context,
                 blockStep, thrown, nodeUpdates, started, invoked, settled, stopAt>>

(***************************************************************************)
(* executeNode (lines 329-496) and the run context.                        *)
(***************************************************************************)
\* Lines 359-360: the source of the only edge into the node, else undefined.
PrevIdOf(wf, id) ==
  LET incoming == {i \in 1..Len(wf.edges) : wf.edges[i].target = id}
  IN  IF Cardinality(incoming) = 1
      THEN Str(wf.edges[CHOOSE i \in incoming : TRUE].source)
      ELSE Undef

\* getNodeOutput taking a name through the alias map before it is used as an id.
getNodeOutputThroughAliasMap(outputs, prevId, name, key) ==
  IF name = "*" THEN Obj([id \in DOMAIN outputs |-> Obj(outputs[id])])
  ELSE LET nid == IF name = "prev" /\ ~Falsy(prevId) THEN prevId
                  ELSE IF name \in DOMAIN aliasMap THEN aliasMap[name]
                  ELSE Str(name)
           slot == IF Tag(nid) = "null" THEN Undef ELSE Slot(outputs, Payload(nid))
       IN  IF Falsy(key) THEN slot
           ELSE IF Nullish(slot) THEN Undef
           ELSE Prop(slot, Payload(key))

\* context.getNodeOutput (lines 433-442), for the store and the prevId of the
\* context: key is a string or undefined.
getNodeOutput(outputs, prevId, name, key) ==
  IF name = "*" THEN Obj([id \in DOMAIN outputs |-> Obj(outputs[id])])
  ELSE LET nid == IF name = "prev" /\ ~Falsy(prevId) THEN Payload(prevId) ELSE name
           slot == Slot(outputs, nid)
       IN  IF Falsy(key) THEN slot
           ELSE IF Nullish(slot) THEN Undef
           ELSE Prop(slot, Payload(key))

\* context.setNodeOutput (lines 443-448): the store after the call.
setNodeOutput(outputs, id, key, value) ==
  SetKey(outputs, id, SetKey(IF id \in DOMAIN outputs THEN outputs[id] ELSE EmptyObject, key, value))

\* The record replaces the whole map of records.
RecordAlone(ex, id, record) == [ex EXCEPT !.nodeExecutions = (id :> record)]

\* execution.nodeExecutions[id] = record
Record(ex, id, record) == [ex EXCEPT !.nodeExecutions = SetKey(@, id, record)]

\* The catch of executeNode leaving the error of the record unset.
NodeCatchWithoutError(ex, id, e) ==
  LET message == ErrorMessage(e)
      marked == Record(ex, id, [ex.nodeExecutions[id] EXCEPT
                  !.status = "error", !.endTime = "stamped"])
  IN  [execution |-> log(marked, "error", "Node failed: " \o message, Str(id)),
       thrown |-> IF logThrows("error") THEN SubscriberError ELSE e]

\* The catch of executeNode (lines 485-493) for the error e: the record is marked,
\* the failure is logged and e is thrown again, unless the log call throws first.
NodeCatch(ex, id, e) ==
  LET message == ErrorMessage(e)
      marked == Record(ex, id, [ex.nodeExecutions[id] EXCEPT
                  !.status = "error", !.error = Str(message), !.endTime = "stamped"])
  IN  [execution |-> log(marked, "error", "Node failed: " \o message, Str(id)),
       thrown |-> IF logThrows("error") THEN SubscriberError ELSE e]

\* executeNode called without await: the loop goes on while the block runs.
ExecuteNodeNotAwaited ==
  /\ pc = "executeNode"
  /\ LET node == FindNode(workflow, nodeId)
         created == Record(execution, node.id, NodeExecution(node.id, "running", Undef, Undef, "unset"))
         noisy == node.type # "starter"
         logged == IF noisy THEN log(created, "info", node.type \o ": " \o node.id, Str(node.id)) ELSE created
         prevId == PrevIdOf(workflow, node.id)
         ctx == [env |-> env, prevId |-> prevId, nodeOutputs |-> nodeOutputs, aliasMap |-> aliasMap]
     IN  /\ started' = Append(started, node.id)
         /\ nodeUpdates' = Append(nodeUpdates, <<node.id, "running">>)
         /\ IF "running" \in onNodeUpdate
            THEN /\ execution' = created
                 /\ thrown' = SubscriberError
                 /\ pc' = "nodeRejected"
                 /\ settled' = Append(settled, "rejected")
                 /\ UNCHANGED <<context, blockStep, invoked>>
            ELSE IF noisy /\ logThrows("info")
            THEN /\ execution' = NodeCatch(logged, node.id, SubscriberError).execution
                 /\ thrown' = NodeCatch(logged, node.id, SubscriberError).thrown
                 /\ pc' = "nodeRejected"
                 /\ settled' = Append(settled, "rejected")
                 /\ UNCHANGED <<context, blockStep, invoked>>
            ELSE IF ~HasBlock(node.type)
            THEN LET e == Error("Block type " \o node.type \o " not found or not executable")
                 IN  /\ execution' = NodeCatch(logged, node.id, e).execution
                     /\ thrown' = NodeCatch(logged, node.id, e).thrown
                     /\ pc' = "nodeRejected"
                     /\ settled' = Append(settled, "rejected")
                     /\ UNCHANGED <<context, blockStep, invoked>>
            ELSE /\ execution' = logged
                 /\ context' = [prevId |-> prevId,
                                inputs |-> resolveTemplatesDeep(Obj(node.data), ctx),
                                isSingleNodeExecution |-> ~Falsy(singleNodeId)]
                 /\ invoked' = Append(invoked, node.id)
                 /\ blockStep' = 1
                 /\ pc' = "nodeResolved"
                 /\ thrown' = thrown
                 /\ settled' = Append(settled, "resolved")
  /\ UNCHANGED <<inputs, request, abortController, aliasMap, nodeOutputs, singleNodeId, visited, queue,
                 nodeId, stopAt>>

\* Lines 338-455: the record is created and announced, the block is looked up,
\* the inputs are resolved and the block's run is invoked.  A throw of the node
\* subscriber at line 345 is outside the try of executeNode.
ExecuteNode ==
  /\ pc = "executeNode"
  /\ LET node == FindNode(workflow, nodeId)
         created == Record(execution, node.id, NodeExecution(node.id, "running", Undef, Undef, "unset"))
         noisy == node.type # "starter"
         logged == IF noisy THEN log(created, "info", node.type \o ": " \o node.id, Str(node.id)) ELSE created
         prevId == PrevIdOf(workflow, node.id)
         ctx == [env |-> env, prevId |-> prevId, nodeOutputs |-> nodeOutputs, aliasMap |-> aliasMap]
     IN  /\ started' = Append(started, node.id)
         /\ nodeUpdates' = Append(nodeUpdates, <<node.id, "running">>)
         /\ IF "running" \in onNodeUpdate
            THEN /\ execution' = created
                 /\ thrown' = SubscriberError
                 /\ pc' = "nodeRejected"
                 /\ settled' = Append(settled, "rejected")
                 /\ UNCHANGED <<context, blockStep, invoked>>
            ELSE IF noisy /\ logThrows("info")
            THEN /\ execution' = NodeCatch(logged, node.id, SubscriberError).execution
                 /\ thrown' = NodeCatch(logged, node.id, SubscriberError).thrown
                 /\ pc' = "nodeRejected"
                 /\ settled' = Append(settled, "rejected")
                 /\ UNCHANGED <<context, blockStep, invoked>>
            ELSE IF ~HasBlock(node.type)
            THEN LET e == Error("Block type " \o node.type \o " not found or not executable")
                 IN  /\ execution' = NodeCatch(logged, node.id, e).execution
                     /\ thrown' = NodeCatch(logged, node.id, e).thrown
                     /\ pc' = "nodeRejected"
                     /\ settled' = Append(settled, "rejected")
                     /\ UNCHANGED <<context, blockStep, invoked>>
            ELSE /\ execution' = logged
                 /\ context' = [prevId |-> prevId,
                                inputs |-> resolveTemplatesDeep(Obj(node.data), ctx),
                                isSingleNodeExecution |-> ~Falsy(singleNodeId)]
                 /\ invoked' = Append(invoked, node.id)
                 /\ blockStep' = 1
                 /\ pc' = "running"
                 /\ thrown' = thrown
                 /\ settled' = settled
  /\ UNCHANGED <<inputs, request, abortController, aliasMap, nodeOutputs, singleNodeId, visited, queue,
                 nodeId, stopAt>>

\* The step the running block takes next.
CurrentStep == BlockScript(FindNode(workflow, nodeId).type)[blockStep]

\* The running block calls context.getNodeOutput with the name, and the key if
\* any, that its inputs give as "from" and "key", keeps what it gets with
\* context.setNodeOutput, and goes on.
BlockGetOutput ==
  /\ pc = "running"
  /\ CurrentStep[1] = "get"
  /\ LET given == Payload(context.inputs)
         got == getNodeOutput(nodeOutputs, context.prevId, Payload(given["from"]), DataGet(given, "key"))
     IN  nodeOutputs' = setNodeOutput(nodeOutputs, nodeId, CurrentStep[2], got)
  /\ blockStep' = blockStep + 1
  /\ UNCHANGED <<inputs, request, abortController, pc, execution, aliasMap, singleNodeId, visited, queue,
                 nodeId, context, thrown, nodeUpdates, started, invoked, settled, stopAt>>

\* No call of context.fetch has been made.
NoRequest ==
  [status |-> "none", signal |-> "none", controller |-> "none", timeout |-> "unset",
   listening |-> FALSE]

\* controller.abort() (lines 524 and 527): the call's controller is aborted, and so
\* is the request if it was given that controller's signal.
Aborted(req) ==
  [req EXCEPT !.controller = "aborted",
              !.status = IF req.status = "pending" /\ req.signal = "controller" THEN "aborted" ELSE @]

\* The fetch of the run context (lines 522-537) up to its await: the running block
\* calls it, with a signal of its own in init if its inputs say so.  A controller is
\* created and the 30 s timer armed; the controller is aborted at once if the
\* engine's signal is aborted already, else it listens to that signal; the request
\* is made with init.signal ?? controller.signal.
BlockFetch ==
  /\ pc = "running"
  /\ CurrentStep[1] = "fetch"
  /\ request.status \in {"none", "responded"}
  /\ LET own == ~Falsy(DataGet(Payload(context.inputs), "signal"))
         made == [status |-> "pending", signal |-> IF own THEN "own" ELSE "controller",
                  controller |-> "live", timeout |-> "armed", listening |-> FALSE]
     IN  request' = IF abortController = "aborted" THEN Aborted(made)
                    ELSE [made EXCEPT !.listening = TRUE]
  /\ UNCHANGED <<inputs, abortController, pc, execution, aliasMap, nodeOutputs, singleNodeId,
                 visited, queue, nodeId, context, blockStep, thrown, nodeUpdates, started,
                 invoked, settled, stopAt>>

\* Line 523: 30 seconds have passed since the call was made and the timer has not
\* been cleared; its callback aborts the call's controller.
FetchTimeout ==
  /\ request.status = "pending"
  /\ request.timeout = "armed"
  /\ request' = [Aborted(request) EXCEPT !.timeout = "fired"]
  /\ UNCHANGED <<inputs, abortController, pc, execution, aliasMap, nodeOutputs, singleNodeId,
                 visited, queue, nodeId, context, blockStep, thrown, nodeUpdates, started,
                 invoked, settled, stopAt>>

\* Lines 537-539 and 544: the response arrives; the timer is cleared, the listener
\* removed, and the block goes on.
FetchResponds ==
  /\ pc = "running"
  /\ request.status = "pending"
  /\ request' = [request EXCEPT !.status = "responded", !.listening = FALSE,
                                !.timeout = IF @ = "armed" THEN "cleared" ELSE @]
  /\ blockStep' = blockStep + 1
  /\ UNCHANGED <<inputs, abortController, pc, execution, aliasMap, nodeOutputs, singleNodeId,
                 visited, queue, nodeId, context, thrown, nodeUpdates, started, invoked, settled,
                 stopAt>>

\* Lines 540-544: the aborted request rejects; the timer is cleared, the listener
\* removed and the error thrown to the block, which lets it pass: executeNode's
\* catch follows.
FetchRejects ==
  /\ pc = "running"
  /\ request.status = "aborted"
  /\ request' = [request EXCEPT !.status = "rejected", !.listening = FALSE,
                                !.timeout = IF @ = "armed" THEN "cleared" ELSE @]
  /\ execution' = NodeCatch(execution, nodeId, Error("The operation was aborted")).execution
  /\ thrown' = NodeCatch(execution, nodeId, Error("The operation was aborted")).thrown
  /\ pc' = "nodeRejected"
  /\ settled' = Append(settled, "rejected")
  /\ UNCHANGED <<inputs, abortController, aliasMap, nodeOutputs, singleNodeId, visited, queue,
                 nodeId, context, blockStep, nodeUpdates, started, invoked, stopAt>>

\* The running block calls context.setNodeOutput and goes on.
BlockSetOutput ==
  /\ pc = "running"
  /\ CurrentStep[1] = "set"
  /\ nodeOutputs' = setNodeOutput(nodeOutputs, nodeId, CurrentStep[2], CurrentStep[3])
  /\ blockStep' = blockStep + 1
  /\ UNCHANGED <<inputs, request, abortController, pc, execution, aliasMap, singleNodeId, visited, queue,
                 nodeId, context, thrown, nodeUpdates, started, invoked, settled, stopAt>>

\* Lines 460-462: a plain object is taken as it is, any other result as { value }.
IsPlainObject(result) == Tag(result) = "obj"

ReturnOutputs(result) ==
  IF IsPlainObject(result) THEN Payload(result) ELSE ("value" :> result)

\* Lines 464-467: the outputs recorded for the node.
RecordedOutputs(outputs, id, result) ==
  Spread(IF id \in DOMAIN outputs THEN outputs[id] ELSE EmptyObject, ReturnOutputs(result))

\* Lines 472-478: the store after the result of the node was propagated.
Propagated(outputs, id, result) ==
  IF IsPlainObject(result)
  THEN SetKey(outputs, id, Spread(IF id \in DOMAIN outputs THEN outputs[id] ELSE EmptyObject, Payload(result)))
  ELSE outputs

\* The block's run resolves; lines 457-495 follow: the record is completed, the
\* result is propagated to the store, completion is logged and announced.  A throw
\* of the log call is caught by executeNode's catch; a throw of the node subscriber
\* at line 495 is not.
BlockReturn ==
  /\ pc = "running"
  /\ CurrentStep[1] = "return"
  /\ LET node == FindNode(workflow, nodeId)
         result == CurrentStep[2]
         done == Record(execution, node.id, [execution.nodeExecutions[node.id] EXCEPT
                   !.status = "success",
                   !.outputs = Obj(RecordedOutputs(nodeOutputs, node.id, result)),
                   !.endTime = "stamped"])
         noisy == node.type # "starter"
         logged == IF noisy THEN log(done, "info", node.type \o " completed", Str(node.id)) ELSE done
     IN  /\ nodeOutputs' = Propagated(nodeOutputs, node.id, result)
         /\ IF noisy /\ logThrows("info")
            THEN /\ execution' = NodeCatch(logged, node.id, SubscriberError).execution
                 /\ thrown' = NodeCatch(logged, node.id, SubscriberError).thrown
                 /\ pc' = "nodeRejected"
                 /\ settled' = Append(settled, "rejected")
                 /\ UNCHANGED nodeUpdates
            ELSE /\ execution' = logged
                 /\ nodeUpdates' = Append(nodeUpdates, <<node.id, "success">>)
                 /\ IF "success" \in onNodeUpdate
                    THEN /\ thrown' = SubscriberError
                         /\ pc' = "nodeRejected"
                         /\ settled' = Append(settled, "rejected")
                    ELSE /\ thrown' = thrown
                         /\ pc' = "nodeResolved"
                         /\ settled' = Append(settled, "resolved")
  /\ UNCHANGED <<inputs, request, abortController, aliasMap, singleNodeId, visited, queue, nodeId, context,
                 blockStep, started, invoked, stopAt>>

\* The block's run rejects; the catch of executeNode follows (lines 485-493).
BlockThrow ==
  /\ pc = "running"
  /\ CurrentStep[1] = "throw"
  /\ execution' = NodeCatch(execution, nodeId, CurrentStep[2]).execution
  /\ thrown' = NodeCatch(execution, nodeId, CurrentStep[2]).thrown
  /\ pc' = "nodeRejected"
  /\ settled' = Append(settled, "rejected")
  /\ UNCHANGED <<inputs, request, abortController, aliasMap, nodeOutputs, singleNodeId, visited, queue,
                 nodeId, context, blockStep, nodeUpdates, started, invoked, stopAt>>

(***************************************************************************)
(* executeWorkflow after the await of executeNode (lines 295-326).         *)
(***************************************************************************)
\* The ids of seq that are not in the set S, in order.
RECURSIVE NotIn(_, _)
NotIn(seq, S) ==
  IF Len(seq) = 0 THEN <<>>
  ELSE (IF Head(seq) \in S THEN <<>> ELSE <<Head(seq)>>) \o NotIn(Tail(seq), S)

\* The successors are pushed in single-node mode as well.
EnqueuedInEveryMode(wf, q, seen, single, from) ==
  q \o NotIn(getConnectedNodes(wf, from), seen)

\* Only the first successor that was not seen is pushed.
EnqueuedFirstOnly(wf, q, seen, single, from) ==
  LET next == NotIn(getConnectedNodes(wf, from), seen)
  IN  IF ~Falsy(single) \/ next = <<>> THEN q ELSE Append(q, Head(next))

\* Lines 303-309: the queue after the successors of the executed node were pushed.
Enqueued(wf, q, seen, single, from) ==
  IF ~Falsy(single) THEN q ELSE q \o NotIn(getConnectedNodes(wf, from), seen)

\* executeNode resolved: the successors are enqueued, the loop goes on.
AfterNode ==
  /\ pc = "nodeResolved"
  /\ queue' = Enqueued(workflow, queue, visited, singleNodeId, nodeId)
  /\ pc' = "loop"
  /\ UNCHANGED <<inputs, request, abortController, execution, aliasMap, nodeOutputs, singleNodeId, visited,
                 nodeId, context, blockStep, thrown, nodeUpdates, started, invoked, settled, stopAt>>

\* A failure of executeNode that is logged and then passed over: the loop goes on.
NodeFailedContinues ==
  /\ pc = "nodeRejected"
  /\ execution' = log([execution EXCEPT !.status = "error"], "error",
                      "Node \"" \o nodeId \o "\" failed: " \o ErrorMessage(thrown), Undef)
  /\ pc' = "nodeResolved"
  /\ UNCHANGED <<inputs, request, abortController, aliasMap, nodeOutputs, singleNodeId, visited, queue,
                 nodeId, context, blockStep, thrown, nodeUpdates, started, invoked, settled, stopAt>>

\* executeNode rejected (lines 295-301): the run is marked, the failure is logged
\* and the error is thrown on to the outer catch.
NodeFailed ==
  /\ pc = "nodeRejected"
  /\ execution' = log([execution EXCEPT !.status = "error"], "error",
                      "Node \"" \o nodeId \o "\" failed: " \o ErrorMessage(thrown), Undef)
  /\ thrown' = IF logThrows("error") THEN SubscriberError ELSE thrown
  /\ pc' = "catch"
  /\ UNCHANGED <<inputs, request, abortController, aliasMap, nodeOutputs, singleNodeId, visited, queue,
                 nodeId, context, blockStep, nodeUpdates, started, invoked, settled, stopAt>>

\* Lines 312-315: after the loop.
Complete ==
  /\ pc = "complete"
  /\ IF execution.status # "cancelled"
     THEN /\ execution' = log([execution EXCEPT !.status = "success"], "info", "Workflow completed", Undef)
          /\ IF logThrows("info")
             THEN pc' = "catch" /\ thrown' = SubscriberError
             ELSE pc' = "finish" /\ thrown' = thrown
     ELSE /\ pc' = "finish"
          /\ UNCHANGED <<execution, thrown>>
  /\ UNCHANGED <<inputs, request, abortController, aliasMap, nodeOutputs, singleNodeId, visited, queue,
                 nodeId, context, blockStep, nodeUpdates, started, invoked, settled, stopAt>>

CatchWithoutLog ==
  /\ pc = "catch"
  /\ execution' = [execution EXCEPT !.status = "error"]
  /\ IF logThrows("error")
     THEN pc' = "rejected" /\ thrown' = SubscriberError
     ELSE pc' = "finish" /\ thrown' = thrown
  /\ UNCHANGED <<inputs, request, abortController, aliasMap, nodeOutputs, singleNodeId, visited, queue,
                 nodeId, context, blockStep, nodeUpdates, started, invoked, settled, stopAt>>

\* The outer catch (lines 317-321).  Its log call is not guarded: what the
\* subscriber throws there rejects the call.
Catch ==
  /\ pc = "catch"
  /\ execution' = log([execution EXCEPT !.status = "error"], "error",
                      "Workflow failed: " \o ErrorMessage(thrown), Undef)
  /\ IF logThrows("error")
     THEN pc' = "rejected" /\ thrown' = SubscriberError
     ELSE pc' = "finish" /\ thrown' = thrown
  /\ UNCHANGED <<inputs, request, abortController, aliasMap, nodeOutputs, singleNodeId, visited, queue,
                 nodeId, context, blockStep, nodeUpdates, started, invoked, settled, stopAt>>

\* Lines 323-326: the end is stamped and the execution is returned.
Finish ==
  /\ pc = "finish"
  /\ execution' = [execution EXCEPT !.endTime = "stamped"]
  /\ pc' = "returned"
  /\ UNCHANGED <<inputs, request, abortController, aliasMap, nodeOutputs, singleNodeId, visited, queue,
                 nodeId, context, blockStep, thrown, nodeUpdates, started, invoked, settled, stopAt>>

(***************************************************************************)
(* stop (lines 562-566).  The caller runs only while the engine awaits:    *)
(* before the call, while a block runs, between the settling of executeNode*)
(* and the continuation of executeWorkflow, and after the call has ended.  *)
(***************************************************************************)
AwaitPoints == {"running", "nodeResolved", "nodeRejected"}

\* Whether the loop has a dequeue left once the node in flight has succeeded.
DequeuePending ==
  Enqueued(workflow, queue, visited, singleNodeId, nodeId) # <<>>

\* The abort listener of a call in flight (onEngineAbort, line 527) runs when
\* stop() aborts the controller the call listens to.
EngineAbort(req, controller) ==
  IF controller = "active" /\ req.listening THEN Aborted(req) ELSE req

Stop ==
  /\ pc \in AwaitPoints \cup {"idle", "returned", "rejected"}
  /\ abortController' = IF abortController = "null" THEN "null" ELSE "aborted"
  /\ stopAt' = IF abortController = "active"
               THEN Some([pc |-> pc, nodeId |-> nodeId, blockStep |-> blockStep,
                          started |-> Len(started), invoked |-> Len(invoked),
                          pending |-> pc \in AwaitPoints /\ DequeuePending])
               ELSE stopAt
  /\ request' = EngineAbort(request, abortController)
  /\ UNCHANGED <<inputs, pc, execution, aliasMap, nodeOutputs, singleNodeId, visited, queue, nodeId,
                 context, blockStep, thrown, nodeUpdates, started, invoked, settled>>

(***************************************************************************)
(* The calls checked: workflows, options and subscribers drawn from        *)
(* bounded sets.                                                           *)
(***************************************************************************)
\* The longest edge list of the workflows whose edges are enumerated.
MaxEdges == 3

Node(id, type, data) == [id |-> id, type |-> type, data |-> data]
Edge(source, target) == [source |-> source, target |-> target]
Workflow(starterId, nodes, edges) ==
  [name |-> "wf", starterId |-> starterId, nodes |-> nodes, edges |-> edges]
Options(onlyNodeId, existingExecution) ==
  [onlyNodeId |-> onlyNodeId, existingExecution |-> existingExecution]
Call(wf, opts, logFails, nodeFails) ==
  [workflow |-> wf, options |-> opts, onLog |-> logFails, onNodeUpdate |-> nodeFails]

Ids == {"a", "b", "c"}

\* Every edge list of at most MaxEdges edges between the three nodes: chains,
\* fan-out, fan-in, cycles, self-loops and repeated edges.
EdgeLists ==
  UNION {[1..n -> {Edge(x, y) : x \in Ids, y \in Ids}] : n \in 0..MaxEdges}

Chain == <<Edge("a", "b"), Edge("b", "c")>>
FanOut == <<Edge("a", "c"), Edge("a", "b")>>
Diamond == <<Edge("a", "b"), Edge("a", "c"), Edge("b", "c")>>

\* Snapshots of earlier runs of the three nodes, as a caller passes them back in
\* existingExecution: one of a run that succeeded, one of a run that failed at b.
PriorLogs == <<ExecutionLog("info", "Starting workflow: wf", Undef)>>

PriorSuccess ==
  [status |-> "success", logs |-> PriorLogs, endTime |-> "prior",
   nodeExecutions |->
     ("a" :> NodeExecution("a", "success", Obj(EmptyObject), Undef, "stamped")) @@
     ("b" :> NodeExecution("b", "success", Obj("x" :> Num(9)), Undef, "stamped")) @@
     ("c" :> NodeExecution("c", "success", Obj(("x" :> Num(5)) @@ ("old" :> Str("k"))), Undef, "stamped"))]

PriorError ==
  [status |-> "error", logs |-> PriorLogs, endTime |-> "prior",
   nodeExecutions |->
     ("a" :> NodeExecution("a", "success", Obj("x" :> Str("hi")), Undef, "stamped")) @@
     ("b" :> NodeExecution("b", "error", Undef, Str("boom"), "stamped"))]

Priors == {None, Some(PriorSuccess), Some(PriorError)}

Env == ("K" :> "secret")

\* Graphs: every edge list over three nodes with blocks that succeed, run in full
\* and for each single node.
GraphCalls ==
  {Call(Workflow("a", <<Node("a", "starter", EmptyObject), Node("b", "const", EmptyObject),
                        Node("c", "const", EmptyObject)>>, edges),
        Options(only, None), {}, {}) :
     edges \in EdgeLists, only \in {None, Some("a"), Some("b"), Some("c")}}

\* Blocks: blocks that return an object or a bare value, set outputs, throw, or are
\* not registered, on three graphs, with and without a selected node and a prior
\* snapshot.
BlockCalls ==
  {Call(Workflow("a", <<Node("a", ta, EmptyObject), Node("b", tb, EmptyObject),
                        Node("c", tc, EmptyObject)>>, edges),
        Options(only, prior), {}, {}) :
     ta \in {"starter", "boom"},
     tb \in {"starter", "const", "bare", "setter", "boom", "late", "ghost"},
     tc \in {"const", "setter", "boom"},
     edges \in {Chain, FanOut, Diamond},
     only \in {None, Some("b"), Some(" c "), Some("zz"), Some("  ")},
     prior \in Priors}

\* Subscribers: a log subscriber failing on some levels, a node subscriber failing
\* on some statuses.
SubscriberCalls ==
  {Call(Workflow("a", <<Node("a", "starter", EmptyObject), Node("b", tb, EmptyObject),
                        Node("c", "const", EmptyObject)>>, Chain),
        Options(only, prior), logFails, nodeFails) :
     tb \in {"const", "boom", "raw", "ghost"},
     only \in {None, Some("b")},
     prior \in {None, Some(PriorSuccess)},
     logFails \in SUBSET {"info", "error"},
     nodeFails \in SUBSET {"running", "success"}}

\* Workflows that validation rejects: no nodes, or no node with the starter's id.
InvalidCalls ==
  {Call(wf, Options(only, prior), logFails, {}) :
     wf \in {Workflow("a", <<>>, <<>>),
             Workflow("zz", <<Node("a", "starter", EmptyObject), Node("b", "const", EmptyObject),
                              Node("c", "const", EmptyObject)>>, Chain)},
     only \in {None, Some("b"), Some("zz")},
     prior \in {None, Some(PriorSuccess)},
     logFails \in {{}, {"error"}}}

\* The configuration of a node: its reserved keys and a templated message.
NameData == {EmptyObject, "alias" :> Str("x"), "refName" :> Str("x"), "alias" :> Str("prev"),
             "alias" :> Str("env"), "alias" :> Str(" x "), "alias" :> Str("")}

Templates == {"{{x.x}}", "{{ x.s }}", "{{prev.x}}", "v={{prev.x}};{{x}}", "{{const.x}}", "{{a.x}}",
              "{{env.K}}", "plain"}

\* Names and templates: nodes that share a name or not, and a last node whose
\* message refers to names, ids, prev and env.
NameCalls ==
  {Call(Workflow("a", <<Node("a", "const", da), Node("b", "setter", db),
                        Node("c", "const", dc @@ ("msg" :> Str(t)))>>, edges),
        Options(only, prior), {}, {}) :
     da \in NameData, db \in NameData,
     dc \in {EmptyObject, "alias" :> Str("x")},
     t \in Templates,
     edges \in {Chain, Diamond},
     only \in {None, Some("c")},
     prior \in {None, Some(PriorSuccess)}}

\* Configurations without a complete placeholder: plain text, braces that open or
\* close no placeholder, and values nested in sequences and maps; one with a
\* placeholder nested in a sequence.
PlainData ==
  {"msg" :> Str("plain"),
   "msg" :> Str("{{x}"),
   "msg" :> Str("{x}} {"),
   "msg" :> Str("}}{{"),
   ("n" :> Num(3)) @@ ("list" :> Arr(<<Str("a{"), Num(1), Null, Bool(TRUE)>>)),
   "map" :> Obj("k" :> Arr(<<Obj("z" :> Str("{ {prev.x} }")), Arr(<<>>)>>)),
   "list" :> Arr(<<Str("{{prev.x}}"), Str("y")>>)}

\* Configurations: a last node whose configuration is plain or nested data, after
\* nodes that have outputs and names.
DataCalls ==
  {Call(Workflow("a", <<Node("a", "starter", EmptyObject), Node("b", tb, "alias" :> Str("x")),
                        Node("c", "const", dc)>>, Chain),
        Options(only, prior), {}, {}) :
     tb \in {"const", "setter"},
     dc \in PlainData,
     only \in {None, Some("c")},
     prior \in {None, Some(PriorSuccess)}}

\* The names a block asks getNodeOutput for: the whole store, the predecessor,
\* ids, names of the alias map, and a name of nothing.
ReaderNames == {"*", "prev", "b", "x", "const", "setter", "zz"}

\* Readers: a last node whose block calls getNodeOutput, after nodes that have
\* outputs and names, one name being the id of another node.
ReaderCalls ==
  {Call(Workflow("a", <<Node("a", "const", da), Node("b", "setter", "alias" :> Str("x")),
                        Node("c", "reader", ("from" :> Str(name)) @@ dk)>>, edges),
        Options(only, prior), {}, {}) :
     da \in {EmptyObject, "alias" :> Str("b"), "alias" :> Str("x")},
     name \in ReaderNames,
     dk \in {EmptyObject, "key" :> Str("x")},
     edges \in {Chain, Diamond},
     only \in {None, Some("c")},
     prior \in {None, Some(PriorSuccess)}}

\* Requests: a node whose block calls context.fetch, with the signal of the call's
\* controller or with a signal of its own.
FetchCalls ==
  {Call(Workflow("a", <<Node("a", "starter", EmptyObject), Node("b", "fetcher", db),
                        Node("c", tc, EmptyObject)>>, edges),
        Options(only, None), logFails, {}) :
     db \in {EmptyObject, "signal" :> Str("own")},
     tc \in {"const", "fetcher"},
     edges \in {Chain, FanOut},
     only \in {None, Some("b")},
     logFails \in {{}, {"error"}}}

\* The families of calls, by number.
Families == 1..8

Calls(family) ==
  CASE family = 1 -> GraphCalls
    [] family = 2 -> BlockCalls
    [] family = 3 -> SubscriberCalls
    [] family = 4 -> InvalidCalls
    [] family = 5 -> NameCalls
    [] family = 6 -> DataCalls
    [] family = 7 -> ReaderCalls
    [] family = 8 -> FetchCalls

\* The engine has been constructed with its subscribers and executeWorkflow is
\* about to be called with the workflow and the options of one of the calls.
Init ==
  /\ \E family \in Families : \E call \in Calls(family) :
       /\ workflow = call.workflow
       /\ options = call.options
       /\ onLog = call.onLog
       /\ onNodeUpdate = call.onNodeUpdate
  /\ env = Env
  /\ abortController = "null"
  /\ pc = "idle"
  /\ execution = FreshExecution
  /\ aliasMap = EmptyObject
  /\ nodeOutputs = EmptyObject
  /\ singleNodeId = Undef
  /\ visited = {}
  /\ queue = <<>>
  /\ nodeId = ""
  /\ context = [prevId |-> Undef, inputs |-> Undef, isSingleNodeExecution |-> FALSE]
  /\ blockStep = 1
  /\ thrown = Undef
  /\ nodeUpdates = <<>>
  /\ started = <<>>
  /\ invoked = <<>>
  /\ settled = <<>>
  /\ stopAt = None
  /\ request = NoRequest

Next ==
  \/ Start
  \/ Validate
  \/ BuildAliasMap
  \/ RestoreOutputs
  \/ FindStart
  \/ LoopExit
  \/ LoopCancel
  \/ DequeueVisited
  \/ DequeueNode
  \/ ExecuteNode
  \/ BlockFetch
  \/ FetchTimeout
  \/ FetchResponds
  \/ FetchRejects
  \/ BlockGetOutput
  \/ BlockSetOutput
  \/ BlockReturn
  \/ BlockThrow
  \/ AfterNode
  \/ NodeFailed
  \/ Complete
  \/ Catch
  \/ Finish
  \/ Stop

Spec == Init /\ [][Next]_vars

(***************************************************************************)
(* Progress.  Once called, executeWorkflow runs each synchronous stretch   *)
(* to its end, the continuation after an await runs once the awaited       *)
(* promise has settled, and a block that was invoked goes on until it      *)
(* returns or raises: every step but stop() and the expiry of a timer is   *)
(* taken if it stays possible.                                             *)
(***************************************************************************)
EngineNext ==
  \/ Start
  \/ Validate
  \/ BuildAliasMap
  \/ RestoreOutputs
  \/ FindStart
  \/ LoopExit
  \/ LoopCancel
  \/ DequeueVisited
  \/ DequeueNode
  \/ ExecuteNode
  \/ BlockFetch
  \/ FetchResponds
  \/ FetchRejects
  \/ BlockGetOutput
  \/ BlockSetOutput
  \/ BlockReturn
  \/ BlockThrow
  \/ AfterNode
  \/ NodeFailed
  \/ Complete
  \/ Catch
  \/ Finish

\* Graphs with a self-loop, cycles through the starter and past it, repeated
\* edges, a node with two predecessors, and no edges at all.
LiveGraphs ==
  {<<>>,
   <<Edge("a", "a")>>,
   <<Edge("a", "b"), Edge("b", "a")>>,
   <<Edge("a", "b"), Edge("b", "c"), Edge("c", "a")>>,
   <<Edge("a", "b"), Edge("a", "b"), Edge("b", "c"), Edge("b", "c")>>,
   <<Edge("a", "b"), Edge("b", "b"), Edge("b", "c")>>,
   <<Edge("a", "b"), Edge("b", "c"), Edge("c", "b"), Edge("c", "c")>>,
   <<Edge("a", "c"), Edge("a", "b"), Edge("c", "b"), Edge("b", "a")>>,
   FanOut,
   Diamond}

\* Full runs on these graphs, with a second node of each kind of block.
LiveCalls ==
  {Call(Workflow("a", <<Node("a", "starter", EmptyObject), Node("b", tb, "from" :> Str("*")),
                        Node("c", "const", EmptyObject)>>, edges),
        Options(None, None), logFails, {}) :
     tb \in {"const", "setter", "boom", "fetcher", "reader"},
     edges \in LiveGraphs,
     logFails \in {{}, {"error"}}}

LiveInit ==
  /\ \E call \in LiveCalls :
       /\ workflow = call.workflow
       /\ options = call.options
       /\ onLog = call.onLog
       /\ onNodeUpdate = call.onNodeUpdate
  /\ env = Env
  /\ abortController = "null"
  /\ pc = "idle"
  /\ execution = FreshExecution
  /\ aliasMap = EmptyObject
  /\ nodeOutputs = EmptyObject
  /\ singleNodeId = Undef
  /\ visited = {}
  /\ queue = <<>>
  /\ nodeId = ""
  /\ context = [prevId |-> Undef, inputs |-> Undef, isSingleNodeExecution |-> FALSE]
  /\ blockStep = 1
  /\ thrown = Undef
  /\ nodeUpdates = <<>>
  /\ started = <<>>
  /\ invoked = <<>>
  /\ settled = <<>>
  /\ stopAt = None
  /\ request = NoRequest

LiveSpec == LiveInit /\ [][Next]_vars /\ WF_vars(EngineNext)

(***************************************************************************)
(* A second call of executeWorkflow on the same engine while the first     *)
(* call awaits.  Its execution, its Output Store, its queue and its alias  *)
(* map are locals of that call (lines 222-256, 277-278); of the state of   *)
(* the engine it writes this.abortController alone (line 220), which the   *)
(* first call reads at each dequeue (line 281).  The call in flight, if    *)
(* any, listens to the controller that was replaced.                       *)
(***************************************************************************)
Reenter ==
  /\ pc \in AwaitPoints
  /\ abortController' = "active"
  /\ request' = [request EXCEPT !.listening = FALSE]
  /\ UNCHANGED <<inputs, pc, execution, aliasMap, nodeOutputs, singleNodeId, visited, queue,
                 nodeId, context, blockStep, thrown, nodeUpdates, started, invoked, settled,
                 stopAt>>

OverlapNext == Next \/ Reenter

OverlapSpec == Init /\ [][OverlapNext]_vars

(***************************************************************************)
(* Vocabulary of the properties.                                           *)
(***************************************************************************)
NodeIds(wf) == {wf.nodes[i].id : i \in 1..Len(wf.nodes)}

Range(seq) == {seq[i] : i \in 1..Len(seq)}

NoRepeat(seq) == \A i, j \in 1..Len(seq) : seq[i] = seq[j] => i = j

\* The nodes one edge away from a node of S.
Successors(wf, S) ==
  {wf.edges[i].target : i \in {j \in 1..Len(wf.edges) : wf.edges[j].source \in S}} \cap NodeIds(wf)

\* The nodes reachable from the nodes of S along edges, S included.
RECURSIVE ReachableFrom(_, _)
ReachableFrom(wf, S) ==
  IF Successors(wf, S) \subseteq S THEN S ELSE ReachableFrom(wf, S \cup Successors(wf, S))

\* The call is a full-workflow run: no onlyNodeId, or one that trims to nothing.
FullRun == Falsy(TrimmedOnlyNodeId(options))

\* The call is a single-node run of a node of the workflow.
SingleRunOfNode ==
  ~FullRun /\ HasNode(workflow, Payload(TrimmedOnlyNodeId(options)))

Selected == Payload(TrimmedOnlyNodeId(options))

HasPrior == Len(options.existingExecution) > 0

\* The nodeExecutions of the snapshot passed in, none without a snapshot.
PriorNodeExecutions ==
  IF HasPrior THEN Head(options.existingExecution).nodeExecutions ELSE EmptyObject

Returned == pc = "returned"

\* Neither subscriber of the engine ever throws.
QuietSubscribers == onLog = {} /\ onNodeUpdate = {}

\* A call of executeNode was rejected in this run.
NodeRaised == "rejected" \in Range(settled)

(***************************************************************************)
(* C1.  In a full-workflow run, whatever the edges (cycles, repeated edges,*)
(* fan-in), no node is executed twice and every executed node is reachable *)
(* from the starter node along edges.                                      *)
(***************************************************************************)
C1_VisitedOnceReachableOnly ==
  FullRun =>
    /\ NoRepeat(started)
    /\ NoRepeat(invoked)
    /\ Range(invoked) \subseteq Range(started)
    /\ Range(started) \subseteq ReachableFrom(workflow, {workflow.starterId})

\* A full run has ended in which a node with edges from two executed nodes, one
\* of them closing a cycle, was executed, and another node was never reached.
C1_Witness ==
  /\ FullRun
  /\ Returned
  /\ \E n \in Range(invoked) :
       /\ Cardinality({workflow.edges[i].source : i \in {j \in 1..Len(workflow.edges) :
                          workflow.edges[j].target = n}} \cap Range(invoked)) >= 2
       /\ n \in Successors(workflow, ReachableFrom(workflow, {n}))
  /\ NodeIds(workflow) \ Range(started) # {}

(***************************************************************************)
(* C2.  Fail-fast.                                                         *)
(***************************************************************************)
\* The nodes a run that had not failed would still have executed.
WouldHaveRun ==
  IF FullRun THEN ReachableFrom(workflow, {workflow.starterId}) \ Range(started) ELSE {}

\* The failing call of executeNode is the last one made in the run.
StoppedAtFailure ==
  /\ Len(settled) = Len(started)
  /\ \A i \in 1..Len(settled) : settled[i] = "rejected" <=> i = Len(settled)

\* C2 as stated: if a node raises, the returned execution has status 'error', no
\* node executes after the failing one, and no node that would have run after it
\* has a NodeExecution entry in the returned snapshot, also when an
\* existingExecution was supplied.  Stated for subscribers that do not throw, so
\* that what raises is a node.
C2_FailFastNoEntryAfter ==
  (QuietSubscribers /\ Returned /\ NodeRaised) =>
    /\ execution.status = "error"
    /\ StoppedAtFailure
    /\ \A n \in WouldHaveRun : n \notin DOMAIN execution.nodeExecutions

\* C2 amended: if a node raises, the returned execution has status 'error', no
\* node executes after the failing one, and a node that would have run after it
\* has a NodeExecution entry in the returned snapshot only if the supplied
\* existingExecution had one, which is then returned unchanged.
C2_FailFast ==
  (Returned /\ NodeRaised) =>
    /\ execution.status = "error"
    /\ StoppedAtFailure
    /\ \A n \in WouldHaveRun :
         /\ n \in DOMAIN execution.nodeExecutions <=> n \in DOMAIN PriorNodeExecutions
         /\ n \in DOMAIN execution.nodeExecutions => execution.nodeExecutions[n] = PriorNodeExecutions[n]

\* A full run with an existingExecution has returned after a block threw, and a
\* node still to run has the entry of the earlier run.
C2_Witness ==
  /\ Returned
  /\ NodeRaised
  /\ FullRun
  /\ HasPrior
  /\ Len(invoked) = Len(started)
  /\ WouldHaveRun \cap DOMAIN PriorNodeExecutions # {}

(***************************************************************************)
(* C3.  stop() while a node is in flight.                                  *)
(***************************************************************************)
Ended == pc \in {"returned", "rejected"}

StopInfo == Head(stopAt)

\* stop() first aborted the run while a block was running and the loop had a
\* dequeue left.
StoppedMidFlight ==
  /\ stopAt # None
  /\ StopInfo.pc = "running"
  /\ StopInfo.pending

\* C3 as stated: after a stop() during a node with a dequeue pending, the node
\* runs to its end, no further node starts, the run ends with status 'cancelled'
\* and no NodeExecution is marked 'error'.  Stated for subscribers that do not
\* throw.
C3_StopMidFlightCancels ==
  (QuietSubscribers /\ Ended /\ StoppedMidFlight) =>
    /\ Len(started) = StopInfo.started
    /\ execution.nodeExecutions[StopInfo.nodeId].status \in {"success", "error"}
    /\ execution.status = "cancelled"
    /\ \A n \in DOMAIN execution.nodeExecutions : execution.nodeExecutions[n].status # "error"

\* C3 amended: after a stop() during a node with a dequeue pending, the node runs
\* to its end and no further node starts.  If the node completes without raising,
\* the next dequeue observes the cancellation: the run returns with status
\* 'cancelled', the nodes executed in this run are marked 'success' and every
\* other entry is the one of the existingExecution.  If the node raises, the
\* run ends with status 'error'.
C3_StopMidFlight ==
  (Ended /\ StoppedMidFlight) =>
    /\ Len(started) = StopInfo.started
    /\ Len(settled) = StopInfo.started
    /\ settled[Len(settled)] = "resolved" =>
         /\ Returned
         /\ execution.status = "cancelled"
         /\ \A n \in Range(started) : execution.nodeExecutions[n].status = "success"
         /\ \A n \in DOMAIN execution.nodeExecutions \ Range(started) :
              /\ n \in DOMAIN PriorNodeExecutions
              /\ execution.nodeExecutions[n] = PriorNodeExecutions[n]
    /\ settled[Len(settled)] = "rejected" => execution.status = "error"

\* stop() came while the second node's block had already set an output; the run
\* was cancelled at the next dequeue.
C3_Witness ==
  /\ Returned
  /\ StoppedMidFlight
  /\ StopInfo.started = 2
  /\ StopInfo.blockStep >= 2
  /\ execution.status = "cancelled"

(***************************************************************************)
(* C4.  stop() right after the call was made.                              *)
(***************************************************************************)
\* The workflow starter -> b -> c.
ThreeNodeChain ==
  /\ Len(workflow.nodes) = 3
  /\ workflow.starterId = "a"
  /\ workflow.edges = Chain

\* stop() first aborted the run where executeWorkflow first awaits: the first
\* node's block was invoked and has not gone on, or the first call of executeNode
\* was rejected before it invoked a block.
StoppedImmediately ==
  /\ stopAt # None
  /\ StopInfo.started = 1
  /\ \/ StopInfo.pc = "running" /\ StopInfo.blockStep = 1
     \/ StopInfo.pc = "nodeRejected" /\ StopInfo.invoked = 0

\* C4 as stated: after a stop() right after a full run of a three-node chain was
\* started, no node begins: the run ends with status 'cancelled' and the snapshot
\* has no nodeExecutions entry.  Stated for subscribers that do not throw.
C4_StopAtStartRunsNothing ==
  (QuietSubscribers /\ Ended /\ FullRun /\ ThreeNodeChain /\ StoppedImmediately) =>
    /\ execution.status = "cancelled"
    /\ started = <<>>
    /\ DOMAIN execution.nodeExecutions = {}

\* C4 amended: when stop() is called right after a full run of a three-node chain
\* was started, the starter node has already begun and no other node begins: the
\* snapshot has the starter's entry and, besides, only the entries of the
\* existingExecution.  If the starter completes without raising the run returns
\* with status 'cancelled' and the starter is marked 'success'; if it raises the
\* run ends with status 'error'.
C4_StopAtStart ==
  (Ended /\ FullRun /\ ThreeNodeChain /\ StoppedImmediately) =>
    /\ started = <<"a">>
    /\ DOMAIN execution.nodeExecutions = {"a"} \cup DOMAIN PriorNodeExecutions
    /\ settled = <<"resolved">> =>
         /\ Returned
         /\ execution.status = "cancelled"
         /\ execution.nodeExecutions["a"].status = "success"
    /\ settled = <<"rejected">> => execution.status = "error"

\* A fresh full run of the chain, stopped at its first await, returned cancelled
\* with the starter's entry alone.
C4_Witness ==
  /\ Returned
  /\ FullRun
  /\ ThreeNodeChain
  /\ StoppedImmediately
  /\ ~HasPrior
  /\ execution.status = "cancelled"
  /\ DOMAIN execution.nodeExecutions = {"a"}

(***************************************************************************)
(* C5, C6.  Failing subscribers.                                           *)
(***************************************************************************)
\* C5: executeWorkflow never throws or rejects: every call returns a snapshot
\* whose status is success, error or cancelled, with the end stamped.
C5_NeverRejects ==
  /\ pc # "rejected"
  /\ Returned =>
       /\ execution.status \in {"success", "error", "cancelled"}
       /\ execution.endTime = "stamped"

\* C6: a log subscriber that fails does not abort the run.  When the node
\* subscriber does not fail, nothing a subscriber threw is ever in flight in the
\* run: the call is not rejected and no node and no run fails with the
\* subscriber's error, so that the run goes as it goes with a subscriber that
\* does not fail.
C6_LogSubscriberFailureSwallowed ==
  onNodeUpdate = {} =>
    /\ pc # "rejected"
    /\ thrown # SubscriberError

(***************************************************************************)
(* C7.  Single-node mode runs the selected node only.                      *)
(***************************************************************************)
\* What single-node mode does in every state of the run: the queue holds the
\* selected node at most, no other node is started and the selected one at most
\* once, and the loop has nothing to dequeue once the node has completed.
SelectedNodeOnly ==
  /\ Range(queue) \subseteq {Selected}
  /\ started \in {<<>>, <<Selected>>}
  /\ (pc = "loop" /\ started # <<>>) => queue = <<>>

\* C7 as stated: in single-node mode of an existing node exactly one node is
\* executed, the selected one; its successors are never enqueued and the run
\* ends right after that node completes.
C7_SingleNodeRunsExactlyOne ==
  SingleRunOfNode =>
    /\ SelectedNodeOnly
    /\ Returned => started = <<Selected>>

\* C7 amended: in single-node mode of an existing node at most one node is
\* executed, the selected one; its successors are never enqueued and the run
\* ends right after that node completes.  The selected node is executed only if
\* the workflow passes validation, which asks for a node with the starter's id in
\* this mode too; a run that returns with status 'success' has executed exactly
\* the selected node.
C7_SingleNodeRunsSelectedOnly ==
  SingleRunOfNode =>
    /\ SelectedNodeOnly
    /\ started # <<>> => Tag(validateWorkflow(workflow)) = "undef"
    /\ (Returned /\ execution.status = "success") => started = <<Selected>>

\* A single-node run of a node with an edge to another node has returned after
\* executing the selected node.
C7_Witness ==
  /\ SingleRunOfNode
  /\ Returned
  /\ execution.status = "success"
  /\ started = <<Selected>>
  /\ Successors(workflow, {Selected}) \ {Selected} # {}

(***************************************************************************)
(* C8.  Single-node mode reads the outputs of the earlier run.             *)
(***************************************************************************)
\* What the closures of the run context read.
RunCtx == [env |-> env, prevId |-> context.prevId, nodeOutputs |-> nodeOutputs, aliasMap |-> aliasMap]

\* The block of the selected node was invoked and has not gone on.
SelectedNodeInvoked == pc = "running" /\ blockStep = 1 /\ SingleRunOfNode

\* The outputs the snapshot passed in records for id, as an object value.
PriorOutputs(id) ==
  IF id \in DOMAIN PriorNodeExecutions THEN PriorNodeExecutions[id].outputs ELSE Undef

\* C8: in single-node mode with an existingExecution, when the selected node
\* runs, the store holds the outputs recorded in the snapshot for every node,
\* getNodeOutput(id, key) is the recorded value, getNodeOutput('prev', key) and
\* {{prev.key}} are the recorded value of the single predecessor (the template
\* as its string form, also in the resolved inputs), and no node but the selected
\* one has been executed.
C8_PriorOutputsRestored ==
  (SelectedNodeInvoked /\ HasPrior) =>
    /\ started = <<Selected>>
    /\ \A id \in DOMAIN PriorNodeExecutions :
         ~Falsy(PriorOutputs(id)) =>
           /\ id \in DOMAIN nodeOutputs
           /\ nodeOutputs[id] = Payload(PriorOutputs(id))
           /\ getNodeOutput(nodeOutputs, context.prevId, id, Undef) = PriorOutputs(id)
           /\ \A key \in DOMAIN Payload(PriorOutputs(id)) :
                getNodeOutput(nodeOutputs, context.prevId, id, Str(key)) = Payload(PriorOutputs(id))[key]
    /\ (~Falsy(context.prevId) /\ ~Falsy(PriorOutputs(Payload(context.prevId)))) =>
         LET upstream == Payload(context.prevId)
             recorded == Payload(PriorOutputs(upstream))
             data == FindNode(workflow, Selected).data
         IN  /\ upstream \notin Range(started)
             /\ \A key \in DOMAIN recorded :
                  /\ getNodeOutput(nodeOutputs, context.prevId, "prev", Str(key)) = recorded[key]
                  /\ ReplaceFrom("{{prev." \o key \o "}}", 1, RunCtx) = JsString(recorded[key])
                  /\ \A k \in DOMAIN data :
                       data[k] = Str("{{prev." \o key \o "}}") =>
                         Payload(context.inputs)[k] = Str(JsString(recorded[key]))

\* Node c is run alone after b, whose recorded outputs are {x: 9}: its message
\* {{prev.x}} was resolved to "9" and b was not executed.
C8_Witness ==
  /\ SelectedNodeInvoked
  /\ HasPrior
  /\ nodeId = "c"
  /\ context.prevId = Str("b")
  /\ PriorOutputs("b") = Obj("x" :> Num(9))
  /\ "msg" \in DOMAIN Payload(context.inputs)
  /\ Payload(context.inputs)["msg"] = Str("9")
  /\ "b" \notin Range(started)

(***************************************************************************)
(* C9.  onNodeUpdate.                                                      *)
(***************************************************************************)
\* How many times x occurs in seq.
Count(seq, x) == Cardinality({i \in 1..Len(seq) : seq[i] = x})

\* C9: onNodeUpdate is fired once when the record of a node is created with
\* status 'running' and once again when the record reaches its terminal state,
\* 'success' or 'error'.
C9_NodeUpdateOnEveryChange ==
  \A n \in Range(started) :
    /\ Count(nodeUpdates, <<n, "running">>) = 1
    /\ execution.nodeExecutions[n].status \in {"success", "error"} =>
         Count(nodeUpdates, <<n, execution.nodeExecutions[n].status>>) = 1

(***************************************************************************)
(* C10.  Names shared by nodes.                                            *)
(***************************************************************************)
\* The names that two or more nodes of the workflow have.
SharedNames(wf) ==
  {AliasOf(wf.nodes[i]) : i \in {k \in 1..Len(wf.nodes) :
      \E j \in 1..Len(wf.nodes) : j # k /\ AliasOf(wf.nodes[j]) = AliasOf(wf.nodes[k])}} \ {""}

\* The alias map of the run has just been built, or a block that was given it is
\* running; no step writes the map in between.
AliasMapBuilt == pc \in {"restore", "running"}

\* The paths of the templates tried on the shared names.
Paths == {"x", "s", "K", "x.y"}

Template(name, path) == "{{" \o name \o "." \o path \o "}}"

EdgesInto(wf, id) == Cardinality({i \in 1..Len(wf.edges) : wf.edges[i].target = id})

\* The source of an edge into id: of the only one when there is exactly one.
Predecessor(wf, id) ==
  wf.edges[CHOOSE i \in 1..Len(wf.edges) : wf.edges[i].target = id].source

\* NodeExecution.outputs as the snapshot records it for id, undefined if the
\* snapshot has no record of id.
RecordedOutputsOf(id) ==
  IF id \in DOMAIN execution.nodeExecutions THEN execution.nodeExecutions[id].outputs ELSE Undef

\* The paths tried after prev.
PrevPaths == {"x", "s", "value"}

\* The block of a node was invoked with its resolved inputs and has not gone on.
NodeInvoked == pc = "running" /\ blockStep = 1

\* C11: when the block of node n is invoked, {{prev.path}} resolves to the string
\* form of the value at path in the outputs recorded for the source of the only
\* edge into n, and to the empty string when no edge or more than one edge
\* targets n.
C11_PrevReadsRecordedOutputs ==
  NodeInvoked =>
    \A path \in PrevPaths :
      ReplaceFrom(Template("prev", path), 1, RunCtx) =
        IF EdgesInto(workflow, nodeId) = 1
        THEN StringOrEmpty(getByPath(RecordedOutputsOf(Predecessor(workflow, nodeId)), path))
        ELSE ""

(***************************************************************************)
(* C12.  Configurations without placeholders.                              *)
(***************************************************************************)
\* Whether the string s has "{{" and, two or more characters later, "}}".
HasMarkers(s) ==
  \E i \in 1..(Len(s) - 1), j \in 1..(Len(s) - 1) :
    /\ i + 2 <= j
    /\ SubSeq(s, i, i + 1) = "{{"
    /\ SubSeq(s, j, j + 1) = "}}"

\* Whether no string in the value val, at any depth, has markers.
RECURSIVE Unmarked(_)
Unmarked(val) ==
  CASE Tag(val) = "str" -> ~HasMarkers(Payload(val))
    [] Tag(val) = "arr" -> \A i \in 1..Len(Payload(val)) : Unmarked(Payload(val)[i])
    [] Tag(val) = "obj" -> \A k \in DOMAIN Payload(val) : Unmarked(Payload(val)[k])
    [] OTHER -> TRUE

\* The lookup context of the running node, and that context without a
\* predecessor, without outputs, without names and without environment.
LookupContexts ==
  {RunCtx,
   [RunCtx EXCEPT !.prevId = Undef],
   [RunCtx EXCEPT !.nodeOutputs = EmptyObject],
   [RunCtx EXCEPT !.aliasMap = EmptyObject],
   [RunCtx EXCEPT !.env = EmptyObject]}

\* The configuration of the running node, as an object value.
RunningData == Obj(FindNode(workflow, nodeId).data)

\* C12: a configuration in which no string has {{ }} markers, whatever maps and
\* sequences it nests, is handed to the block unchanged, and resolving it in any
\* lookup context gives a value equal to it.
C12_ResolveIsIdentityWithoutMarkers ==
  (NodeInvoked /\ Unmarked(RunningData)) =>
    /\ context.inputs = RunningData
    /\ \A ctx \in LookupContexts : resolveTemplatesDeep(RunningData, ctx) = RunningData

\* Node c runs after b has recorded outputs under the name x; its configuration
\* nests a string with separated braces in a map in a sequence in a map, and its
\* block was handed that configuration.
C12_Witness ==
  /\ NodeInvoked
  /\ nodeId = "c"
  /\ "b" \in DOMAIN nodeOutputs /\ "x" \in DOMAIN nodeOutputs["b"]
  /\ "x" \in DOMAIN aliasMap
  /\ RunningData = Obj("map" :> Obj("k" :> Arr(<<Obj("z" :> Str("{ {prev.x} }")), Arr(<<>>)>>)))
  /\ context.inputs = RunningData

(***************************************************************************)
(* C13, C14.  Workflows that validation rejects.                           *)
(***************************************************************************)
\* The workflow has no nodes, or none whose id is starterId.
NoStartNode(wf) == Len(wf.nodes) = 0 \/ wf.starterId \notin NodeIds(wf)

\* C13: a run of a workflow with no nodes, or with no node whose id is
\* starterId, never creates a NodeExecution, invokes a block, fires onNodeUpdate
\* or writes the Output Store; the records it holds are those passed in with
\* existingExecution; it returns with status 'error', and it does return when
\* no subscriber fails.
C13_InvalidWorkflowFailsFast ==
  NoStartNode(workflow) =>
    /\ started = <<>>
    /\ invoked = <<>>
    /\ nodeUpdates = <<>>
    /\ nodeOutputs = EmptyObject
    /\ \A id \in DOMAIN execution.nodeExecutions :
         id \in DOMAIN PriorNodeExecutions /\ execution.nodeExecutions[id] = PriorNodeExecutions[id]
    /\ Returned => execution.status = "error"
    /\ (Ended /\ QuietSubscribers) => Returned

\* A workflow of three nodes whose starterId names none of them was run for its
\* node b alone, with the snapshot of an earlier run: it returned 'error' and b
\* was not started.
C13_Witness ==
  /\ Returned
  /\ Len(workflow.nodes) = 3
  /\ workflow.starterId \notin NodeIds(workflow)
  /\ options.onlyNodeId = Some("b")
  /\ HasPrior
  /\ execution.status = "error"
  /\ started = <<>>

\* The logs of the snapshot passed in with existingExecution.
CarriedLogs == IF HasPrior THEN Head(options.existingExecution).logs ELSE <<>>

\* The message of the error validateWorkflow throws for a workflow it rejects.
ValidationMessage(wf) ==
  IF Len(wf.nodes) = 0 THEN "Workflow has no nodes" ELSE "Start node not found"

NodeOrder(wf) == [i \in 1..Len(wf.nodes) |-> wf.nodes[i].id]

\* The successors of id in the order in which their edges are declared.
SuccessorsByEdge(wf, id) ==
  LET Leaves(e) == e.source = id /\ e.target \in NodeIds(wf)
      leaving == SelectSeq(wf.edges, Leaves)
  IN  [i \in 1..Len(leaving) |-> leaving[i].target]

\* The successors of id in the order in which the nodes are declared.
SuccessorsByNode(wf, id) ==
  LET IsTarget(n) == \E i \in 1..Len(wf.edges) : wf.edges[i].source = id /\ wf.edges[i].target = n
  IN  SelectSeq(NodeOrder(wf), IsTarget)

\* Breadth-first order: the nodes in the order of their first dequeue, from the
\* queue q and the nodes done so far, when the successors of a node are enqueued
\* in edge order (byEdge) or in node order.
RECURSIVE BreadthFirst(_, _, _, _)
BreadthFirst(wf, byEdge, q, done) ==
  IF Len(q) = 0 THEN done
  ELSE IF Head(q) \in Range(done) THEN BreadthFirst(wf, byEdge, Tail(q), done)
  ELSE LET next == IF byEdge THEN SuccessorsByEdge(wf, Head(q)) ELSE SuccessorsByNode(wf, Head(q))
           New(n) == n \notin Range(done) /\ n # Head(q)
       IN  BreadthFirst(wf, byEdge, Tail(q) \o SelectSeq(next, New), Append(done, Head(q)))

\* Whether s is the beginning of t.
IsPrefix(s, t) == Len(s) <= Len(t) /\ SubSeq(t, 1, Len(s)) = s

\* The started nodes have just changed, or the run has returned.
VisitObserved == pc \in {"running", "nodeRejected", "returned"}

\* C15 as stated: in a full run the nodes are started in breadth-first order from
\* the starter with the successors of a node enqueued in the order in which their
\* edges are declared; a run that returns 'success' has started all of them.
C15_VisitOrderByEdgeDeclaration ==
  (FullRun /\ ~NoStartNode(workflow) /\ VisitObserved) =>
    LET order == BreadthFirst(workflow, TRUE, <<workflow.starterId>>, <<>>)
    IN  /\ IsPrefix(started, order)
        /\ (Returned /\ execution.status = "success") => started = order

\* C15 amended: in a full run the nodes are started in breadth-first order from
\* the starter with the successors of a node enqueued in the order in which the
\* nodes are declared in workflow.nodes; a run that returns 'success' has started
\* all of them.
C15_VisitOrderByNodeDeclaration ==
  (FullRun /\ ~NoStartNode(workflow) /\ VisitObserved) =>
    LET order == BreadthFirst(workflow, FALSE, <<workflow.starterId>>, <<>>)
    IN  /\ IsPrefix(started, order)
        /\ (Returned /\ execution.status = "success") => started = order

\* The edges a -> c and a -> b are declared in that order, the nodes as a, b, c:
\* the run returned 'success' after starting a, b, c.
C15_Witness ==
  /\ Returned
  /\ FullRun
  /\ execution.status = "success"
  /\ NodeOrder(workflow) = <<"a", "b", "c">>
  /\ workflow.edges = <<Edge("a", "c"), Edge("a", "b")>>
  /\ started = <<"a", "b", "c">>

(***************************************************************************)
(* C16.  One node at a time.                                               *)
(***************************************************************************)
\* The status recorded for a node started in this run.
StatusOf(id) == execution.nodeExecutions[id].status

\* At most one node started in this run is 'running', and it is the one started
\* last: every node started before it has reached 'success' or 'error'.
OneRunning ==
  /\ Cardinality({n \in Range(started) : StatusOf(n) = "running"}) <= 1
  /\ \A i \in 1..(Len(started) - 1) : StatusOf(started[i]) \in {"success", "error"}

\* A step that changes the Output Store is the restore before any node has
\* started, or a step of the block of the node started last, which is 'running',
\* and then it changes the slot of that node only.
WritesByRunningNode ==
  nodeOutputs' # nodeOutputs =>
    \/ started = <<>> /\ started' = <<>>
    \/ /\ pc = "running"
       /\ started # <<>>
       /\ started' = started
       /\ nodeId = started[Len(started)]
       /\ StatusOf(nodeId) = "running"
       /\ \A id \in (DOMAIN nodeOutputs \cup DOMAIN nodeOutputs') \ {nodeId} :
            Slot(nodeOutputs', id) = Slot(nodeOutputs, id)

\* C16: at every moment at most one NodeExecution of the run is 'running', a
\* node is started only after every node started before it has reached 'success'
\* or 'error', and the Output Store is written only by the node that is running,
\* in its own slot: every write of a node precedes the start of every later node.
C16_OneNodeAtATime == []OneRunning /\ [][WritesByRunningNode]_vars

\* Nodes b and c are independent branches after a: c is running, b has
\* succeeded and its outputs are in the store.
C16_Witness ==
  /\ NodeInvoked
  /\ workflow.edges = FanOut
  /\ started = <<"a", "b", "c">>
  /\ StatusOf("b") = "success"
  /\ StatusOf("c") = "running"
  /\ "b" \in DOMAIN nodeOutputs /\ nodeOutputs["b"] # EmptyObject

(***************************************************************************)
(* C17, C18.  The outputs recorded for a node that succeeded.              *)
(***************************************************************************)
\* The nodes started in this run whose record has status 'success'.
Succeeded == {n \in Range(started) : StatusOf(n) = "success"}

\* C17: the slot of a node that succeeded holds, in the Output Store, the
\* outputs its NodeExecution records, the { value: v } of a bare result v
\* included.
C17_StoreSlotEqualsRecordedOutputs ==
  \A n \in Succeeded :
    /\ n \in DOMAIN nodeOutputs
    /\ Obj(nodeOutputs[n]) = RecordedOutputsOf(n)

\* What the steps of a block's script before its return wrote with
\* setNodeOutput, from the empty object.
RECURSIVE WrittenBy(_, _)
WrittenBy(script, acc) ==
  IF Len(script) = 0 THEN acc
  ELSE IF Head(script)[1] = "set"
       THEN WrittenBy(Tail(script), SetKey(acc, Head(script)[2], Head(script)[3]))
       ELSE WrittenBy(Tail(script), acc)

\* C18: the outputs recorded for a node that succeeded are the keys its block
\* wrote with setNodeOutput in this execution overlaid with the fields of the
\* result it returned (a bare value v as { value: v }), and nothing else.
C18_RecordedOutputsAreWrittenAndReturned ==
  \A n \in Succeeded :
    LET script == BlockScript(FindNode(workflow, n).type)
        result == script[Len(script)][2]
    IN  RecordedOutputsOf(n) =
          Obj(Spread(WrittenBy(script, EmptyObject),
                     IF Tag(result) = "obj" THEN Payload(result) ELSE ("value" :> result)))

(***************************************************************************)
(* C19.  The names getNodeOutput resolves.                                 *)
(***************************************************************************)
\* The running block takes its getNodeOutput step.
ReaderReads ==
  /\ pc = "running"
  /\ CurrentStep[1] = "get"
  /\ blockStep' = blockStep + 1

\* The name and the key the running block asks for.
AskedName == Payload(context.inputs)["from"]
AskedKey == DataGet(Payload(context.inputs), "key")

\* What the block got: the value it kept in its own slot.
Got == nodeOutputs'[nodeId]["out"]

\* The slot, or the value under the key if one is asked for.
Keyed(slot, key) ==
  IF Falsy(key) THEN slot
  ELSE IF Nullish(slot) THEN Undef
  ELSE IF Payload(key) \in DOMAIN Payload(slot) THEN Payload(slot)[Payload(key)]
  ELSE Undef

\* The whole Output Store as a value.
WholeStore == Obj([id \in DOMAIN nodeOutputs |-> Obj(nodeOutputs[id])])

\* C19 as stated: getNodeOutput returns the whole store for '*', the slot of the
\* single predecessor for 'prev', and for any other name the slot of the node the
\* Alias Map gives for it (nothing if the name is ambiguous), or of the node with
\* that id if the Alias Map has no such name.
C19_GetNodeOutputResolvesLikeTemplates ==
  [][ReaderReads =>
       LET name == Payload(AskedName)
       IN  IF name = "*" THEN Got = WholeStore
           ELSE IF name = "prev" /\ EdgesInto(workflow, nodeId) = 1
             THEN Got = Keyed(Slot(nodeOutputs, Predecessor(workflow, nodeId)), AskedKey)
           ELSE IF name \in DOMAIN aliasMap
             THEN Got = IF Tag(aliasMap[name]) = "null" THEN Undef
                        ELSE Keyed(Slot(nodeOutputs, Payload(aliasMap[name])), AskedKey)
           ELSE Got = Keyed(Slot(nodeOutputs, name), AskedKey)]_vars

\* C19 amended: getNodeOutput returns the whole store for '*', the slot of the
\* single predecessor for 'prev', and for any other name the slot the store has
\* under that very name, whatever the Alias Map holds for it.
C19_GetNodeOutputByIdOnly ==
  [][ReaderReads =>
       LET name == Payload(AskedName)
       IN  IF name = "*" THEN Got = WholeStore
           ELSE IF name = "prev" /\ EdgesInto(workflow, nodeId) = 1
             THEN Got = Keyed(Slot(nodeOutputs, Predecessor(workflow, nodeId)), AskedKey)
           ELSE Got = Keyed(Slot(nodeOutputs, name), AskedKey)]_vars

\* Node c asked for the name x, which the Alias Map gives to b, whose slot holds
\* outputs: it got nothing.
C19_Witness ==
  /\ pc = "running"
  /\ blockStep = 2
  /\ nodeId = "c"
  /\ FindNode(workflow, nodeId).type = "reader"
  /\ AskedName = Str("x")
  /\ "x" \in DOMAIN aliasMap /\ aliasMap["x"] = Str("b")
  /\ "b" \in DOMAIN nodeOutputs /\ nodeOutputs["b"] # EmptyObject
  /\ nodeOutputs["c"]["out"] = Undef

(***************************************************************************)
(* C20.  What a single-node run needs.                                     *)
(***************************************************************************)
\* The errors thrown for a workflow that cannot be started.
ValidationErrors ==
  {Error("Workflow has no nodes"), Error("Start node not found"), Error("Selected node not found")}

\* options.onlyNodeId, trimmed, is the id of no node of the workflow.
SelectedMissing == Selected \notin NodeIds(workflow)

\* C20 as stated: a single-node run that returns was rejected, with status 'error'
\* and no node started, if the workflow has no nodes or onlyNodeId names none of
\* them, and has otherwise executed the selected node, whether or not starterId
\* names a node.  Stated for subscribers that do not throw and runs that are not
\* cancelled.
C20_SingleNodeNeedsSelectedOnly ==
  (~FullRun /\ Returned /\ QuietSubscribers /\ execution.status # "cancelled") =>
    IF Len(workflow.nodes) = 0 \/ SelectedMissing
    THEN execution.status = "error" /\ started = <<>>
    ELSE started = <<Selected>>

\* C20 amended: a single-node run is rejected as a validation error exactly when
\* the workflow has no nodes, starterId names none of them, or onlyNodeId names
\* none of them: then no node is started and the run returns 'error'.  Otherwise
\* no validation error is thrown, no node but the selected one is started, and a
\* run that returns without being cancelled, with subscribers that do not throw,
\* has executed the selected node.
C20_SingleNodeNeedsStarterAndSelected ==
  ~FullRun =>
    IF NoStartNode(workflow) \/ SelectedMissing
    THEN /\ started = <<>>
         /\ pc \in {"catch", "finish", "returned"} => thrown \in ValidationErrors
         /\ Returned => execution.status = "error"
    ELSE /\ thrown \notin ValidationErrors
         /\ Range(started) \subseteq {Selected}
         /\ (Returned /\ QuietSubscribers /\ execution.status # "cancelled") =>
              started = <<Selected>>

\* Node b, which exists, was selected in a workflow whose starterId names no
\* node: the run returned 'error' for the missing start node and b was not
\* started.
C20_Witness ==
  /\ Returned
  /\ ~FullRun
  /\ ~HasPrior
  /\ Selected = "b"
  /\ ~SelectedMissing
  /\ workflow.starterId \notin NodeIds(workflow)
  /\ thrown = Error("Start node not found")
  /\ execution.status = "error"
  /\ started = <<>>

(***************************************************************************)
(* C21.  The calls made through context.fetch.                             *)
(***************************************************************************)
\* C21: no call made through context.fetch is still in flight once its 30 s timer
\* has fired or the engine's signal has been aborted, whatever options the block
\* passed to the call.
C21_FetchAbortedOnTimeoutOrStop ==
  request.status = "pending" =>
    /\ request.timeout # "fired"
    /\ abortController # "aborted"

(***************************************************************************)
(* C22.  Calls of executeWorkflow that overlap on one engine.              *)
(***************************************************************************)
\* C22: whatever other calls of executeWorkflow are made on the engine, a run
\* that stop() aborted while a block was running and a dequeue was left starts
\* no node after it: its next dequeue observes the stop.
C22_StopObservedDespiteOtherCalls ==
  StoppedMidFlight => Len(started) = StopInfo.started

(***************************************************************************)
(* C23.  Termination.                                                      *)
(***************************************************************************)
\* C23: the call of executeWorkflow ends, whatever cycles, self-loops and
\* repeated edges the workflow has; it returns when no subscriber throws; and no
\* node is ever started a second time.
C23_RunTerminates ==
  /\ <>Ended
  /\ QuietSubscribers => <>Returned
  /\ []NoRepeat(started)

\* The run of the cycle a -> b -> c -> a returned 'success' after starting each
\* node once.
C23_Witness ==
  /\ Returned
  /\ workflow.edges = <<Edge("a", "b"), Edge("b", "c"), Edge("c", "a")>>
  /\ execution.status = "success"
  /\ started = <<"a", "b", "c">>

(***************************************************************************)
(* C24.  Paths that run into a scalar.                                     *)
(***************************************************************************)
\* The keys tried on a scalar.
ScalarSteps == {"length", "0", "x"}

\* Whether the value is not a traversable container.
IsScalar(v) == Tag(v) \in {"str", "num", "bool", "null", "undef"}

\* C24: when the block of a node is invoked, a placeholder {{id.key.step}} whose
\* path passes through a scalar output key of node id resolves to the empty
\* string: no key is looked up on a string, a number or a boolean.
C24_PathStopsAtScalar ==
  NodeInvoked =>
    \A id \in DOMAIN nodeOutputs \ DOMAIN aliasMap :
      \A key \in DOMAIN nodeOutputs[id], step \in ScalarSteps :
        IsScalar(nodeOutputs[id][key]) =>
          ReplaceFrom(Template(id, key \o "." \o step), 1, RunCtx) = ""

(***************************************************************************)
(* C25.  Execution order and the edges of an acyclic graph.                *)
(***************************************************************************)
\* No node of the workflow is reachable from one of its own successors.
Acyclic(wf) == \A n \in NodeIds(wf) : n \notin ReachableFrom(wf, Successors(wf, {n}))

\* The sources of the edges into id that the starter reaches.
ReachablePredecessors(wf, id) ==
  {wf.edges[i].source : i \in {j \in 1..Len(wf.edges) : wf.edges[j].target = id}}
    \cap ReachableFrom(wf, {wf.starterId})

\* C25: in a full run over an acyclic graph, every node is started only after
\* each of its predecessors that the starter reaches has been started
\* (topological order).
C25_TopologicalOrder ==
  (FullRun /\ VisitObserved /\ Acyclic(workflow)) =>
    \A i \in 1..Len(started) :
      ReachablePredecessors(workflow, started[i]) \subseteq Range(SubSeq(started, 1, i - 1))

(***************************************************************************)
(* C26.  What a failed node leaves in the snapshot.                        *)
(***************************************************************************)
\* Whether t occurs in s.
Contains(s, t) == \E i \in 1..(Len(s) - Len(t) + 1) : SubSeq(s, i, i + Len(t) - 1) = t

\* The last call of executeNode was rejected and the loop has seen it or is
\* about to.
LastNodeRejected ==
  /\ pc \in {"nodeRejected", "catch", "finish", "returned", "rejected"}
  /\ settled # <<>>
  /\ settled[Len(settled)] = "rejected"

\* The node that failed has no registered block, and executeNode got as far as
\* looking its block up.
FailedForNoBlock ==
  /\ LastNodeRejected
  /\ ~HasBlock(FindNode(workflow, nodeId).type)
  /\ "running" \notin onNodeUpdate
  /\ ~(FindNode(workflow, nodeId).type # "starter" /\ logThrows("info"))

\* The node failed because its block's run raised: by a throw of its own, or by
\* the rejection of the call of fetch it awaited.
FailedByRaise ==
  /\ LastNodeRejected
  /\ HasBlock(FindNode(workflow, nodeId).type)
  /\ invoked # <<>>
  /\ invoked[Len(invoked)] = nodeId
  /\ (CurrentStep[1] = "throw" \/ request.status = "rejected")

\* What the failing node raised.
Raised ==
  IF ~HasBlock(FindNode(workflow, nodeId).type)
  THEN Error("Block type " \o FindNode(workflow, nodeId).type \o " not found or not executable")
  ELSE IF CurrentStep[1] = "throw" THEN CurrentStep[2]
  ELSE Error("The operation was aborted")

\* The message of what was raised: that of an Error, the text of any other value.
SuppliedMessage(e) == IF Tag(e) = "Error" THEN e[2] ELSE JsString(e)

\* The snapshot shows the failure of the node with the message m.
FailureShown(m) ==
  /\ nodeId \in DOMAIN execution.nodeExecutions
  /\ execution.nodeExecutions[nodeId].status = "error"
  /\ execution.nodeExecutions[nodeId].error = Str(m)
  /\ \E i \in 1..Len(execution.logs) :
       execution.logs[i].level = "error" /\ Contains(execution.logs[i].message, m)
  /\ Ended => execution.status = "error"

\* C26 as stated: when a node fails because its block raised with message m or
\* because its type has no registered block, its record has status 'error' and
\* the error m unchanged, the logs hold an error entry containing m, and the run
\* ends with status 'error'.
C26_FailureKeepsMessage ==
  (FailedForNoBlock \/ FailedByRaise) => FailureShown(SuppliedMessage(Raised))

\* C26 amended: the same when the block raised an Error with message m or the
\* type has no registered block; when the block raised a value that is not an
\* Error, the record and the log entry carry 'Unknown error' instead.
C26_FailureKeepsErrorMessage ==
  (FailedForNoBlock \/ FailedByRaise) =>
    FailureShown(IF Tag(Raised) = "Error" THEN Raised[2] ELSE "Unknown error")

C26_Witness ==
  /\ Returned
  /\ FailedByRaise
  /\ Raised = Error("late")
  /\ FullRun
  /\ Len(started) = 2

(***************************************************************************)
(* C27.  The execution log only grows at its end.                          *)
(***************************************************************************)
\* The call has begun: the execution exists.
Begun == pc # "idle"

\* A step of the run keeps the entries logged so far, in their places.
LogsKept == Begun => IsPrefix(execution.logs, execution.logs')

\* C27: the logs are append-only.  Every step of a run leaves the entries logged
\* so far in place and adds only at the end, and from the start of the call to
\* the returned snapshot the logs of the existingExecution passed in are a prefix
\* of the logs of the execution.
C27_LogsAppendOnly ==
  /\ [](Begun => IsPrefix(CarriedLogs, execution.logs))
  /\ [][LogsKept]_vars

C27_Witness ==
  /\ Returned
  /\ HasPrior
  /\ SingleRunOfNode
  /\ CarriedLogs # <<>>
  /\ Len(execution.logs) >= Len(CarriedLogs) + 3

(***************************************************************************)
(* C28.  What status 'success' says about the nodes.                       *)
(***************************************************************************)
\* A full run without existingExecution has returned with status 'success'.
FreshFullSuccess ==
  /\ Returned
  /\ FullRun
  /\ ~HasPrior
  /\ execution.status = "success"

\* C28: when a fresh full run returns with status 'success', the nodes with a
\* NodeExecution entry are exactly the nodes reachable from the starter, and
\* each of these entries has status 'success'.
C28_SuccessCoversReachableNodes ==
  FreshFullSuccess =>
    /\ DOMAIN execution.nodeExecutions = ReachableFrom(workflow, {workflow.starterId})
    /\ \A n \in DOMAIN execution.nodeExecutions : execution.nodeExecutions[n].status = "success"

\* A fresh full run over a graph with a node the starter does not reach, which
\* has an edge to a node that it does reach, has returned with status 'success'.
C28_Witness ==
  /\ FreshFullSuccess
  /\ Cardinality(DOMAIN execution.nodeExecutions) = 2
  /\ \E n \in NodeIds(workflow) \ DOMAIN execution.nodeExecutions :
       Successors(workflow, {n}) \cap DOMAIN execution.nodeExecutions # {}

(***************************************************************************)
(* C29.  What status 'cancelled' says about the nodes.                     *)
(***************************************************************************)
\* The nodes the starter reaches that were not executed in this run.
Unexecuted == ReachableFrom(workflow, {workflow.starterId}) \ Range(started)

\* Every node the starter reaches was executed in this run and is marked
\* 'success'.
AllReachableSucceeded ==
  /\ Unexecuted = {}
  /\ \A n \in ReachableFrom(workflow, {workflow.starterId}) :
       /\ n \in DOMAIN execution.nodeExecutions
       /\ execution.nodeExecutions[n].status = "success"

\* C29 as stated: a full run that ends with status 'cancelled' has left a node
\* that the starter reaches unexecuted, and a full run in which every such node
\* completed successfully ends with status 'success', also when stop() was called
\* during the last node.  Stated for subscribers that do not throw.
C29_CancelledLeavesNodeUnexecuted ==
  (Returned /\ FullRun /\ QuietSubscribers) =>
    /\ execution.status = "cancelled" => Unexecuted # {}
    /\ AllReachableSucceeded => execution.status = "success"

\* C29 amended: a full run that ends with status 'cancelled' was stopped and had
\* an entry left in its queue, which may be a further entry of a node that was
\* executed already; a full run in which every node the starter reaches completed
\* successfully and which left no entry in the queue does not end with status
\* 'cancelled', also when stop() was called during the last node: it ends with
\* status 'success', or with status 'error' when a subscriber threw.
C29_CancelledLeavesQueueEntry ==
  (Returned /\ FullRun) =>
    /\ execution.status = "cancelled" => (queue # <<>> /\ stopAt # None)
    /\ (AllReachableSucceeded /\ queue = <<>>) =>
         \/ execution.status = "success"
         \/ execution.status = "error" /\ thrown = SubscriberError

\* A full run was stopped during its last node and has returned with status
\* 'cancelled' although every node the starter reaches completed successfully.
C29_Witness ==
  /\ Returned
  /\ FullRun
  /\ execution.status = "cancelled"
  /\ AllReachableSucceeded
  /\ StopInfo.pc = "running"
  /\ StopInfo.started = Len(started)
  /\ Len(started) = 3

\* A full run was stopped during its last node, after which the queue was
\* empty, and has returned with status 'success'.
C29_WitnessSuccess ==
  /\ Returned
  /\ FullRun
  /\ execution.status = "success"
  /\ stopAt # None
  /\ StopInfo.pc = "running"
  /\ StopInfo.started = Len(started)
  /\ Len(started) = 3

(***************************************************************************)
(* C30.  What a single-node run with an existingExecution leaves alone.    *)
(***************************************************************************)
\* A single-node call with an existingExecution is under way or has ended.
SingleRunWithPrior == Begun /\ ~FullRun /\ HasPrior

\* The records of the nodes other than the selected one are those of the
\* snapshot passed in.
OtherRecordsKept ==
  \A n \in (DOMAIN execution.nodeExecutions \cup DOMAIN PriorNodeExecutions) \ {Selected} :
    /\ n \in DOMAIN execution.nodeExecutions
    /\ n \in DOMAIN PriorNodeExecutions
    /\ execution.nodeExecutions[n] = PriorNodeExecutions[n]

\* A step after the restore leaves the slots of the nodes other than the
\* selected one as they are.
OtherSlotsKept ==
  (SingleRunWithPrior /\ pc # "restore") =>
    \A id \in (DOMAIN nodeOutputs \cup DOMAIN nodeOutputs') \ {Selected} :
      Slot(nodeOutputs', id) = Slot(nodeOutputs, id)

\* C30: in single-node mode with an existingExecution, from the start of the
\* call to the returned snapshot the NodeExecution entries of the nodes other
\* than the selected one equal those of the prior snapshot, and no step after the
\* restore writes a slot of the Output Store other than the selected node's.
C30_SingleNodeRunTouchesSelectedOnly ==
  /\ [](SingleRunWithPrior => OtherRecordsKept)
  /\ [][OtherSlotsKept]_vars

\* A single-node run with a prior snapshot of three nodes has returned: the
\* selected node has a new record and its block wrote to its slot.
C30_Witness ==
  /\ Returned
  /\ SingleRunOfNode
  /\ HasPrior
  /\ execution.status = "success"
  /\ Cardinality(DOMAIN PriorNodeExecutions) = 3
  /\ execution.nodeExecutions[Selected] # PriorNodeExecutions[Selected]
  /\ FindNode(workflow, Selected).type = "setter"
  /\ Obj(nodeOutputs[Selected]) # PriorOutputs(Selected)

=====